---- MODULE Spec2Model ----
(***************************************************************************)
(* Sentinel brain: the layered scoring pipeline of the anomaly-detection   *)
(* engine (feature aggregation, heuristic filter, anomaly detector,        *)
(* protocol filter, signal engine, inference engine).                      *)
(*                                                                         *)
(* Representation of the Python values:                                    *)
(*   - scores, confidences: fixed point, ONE stands for 1.0;               *)
(*   - risk adjustments: hundredths (-20 stands for -0.20);                *)
(*   - wei amounts: units of 10^17 wei, so that the source's 1e18 is the   *)
(*     number Ether, 10**22 is 10000 * Ether and an amount between 0 and   *)
(*     1e18 wei can be written;                                            *)
(*   - hex strings (addresses, selectors): [hex, lower], hex the           *)
(*     lower-cased text and lower whether the text is all lower case;      *)
(*   - float ratios that are quotients of integers: pairs <<num, den>>;    *)
(*     variance_ratio is carried as its square <<p, q>> (ratio^2 = p/q).   *)
(***************************************************************************)
EXTENDS Integers, Sequences, FiniteSets, TLC

VARIABLES
    tables,            \* the module-level table objects that filters built by default share
    database,          \* the rows of the SQLite file behind a Database, or NoValue
    engine,            \* which engine object the behaviour drives
    hash_seed,         \* the interpreter's string-hash seed (fixes set order)
    protocol_filter,   \* SignalEngine.protocol_filter, or NoValue when disabled
    ml_detector,       \* the loaded detector artifact, or NoValue
    enable_simulation, \* InferenceEngine.enable_simulation
    min_alert_level,   \* SignalEngine.min_alert_level
    alert_callbacks,   \* SignalEngine.alert_callbacks
    stats,             \* the engine's _stats dictionary
    call,              \* the last completed public call and what it returned
    observed,          \* one earlier signal, kept to compare later ones with
    fn,                \* function under test in the pure-function harness
    arg,               \* its input
    res                \* its output

vars == <<tables, database, engine, hash_seed, protocol_filter, ml_detector, enable_simulation,
          min_alert_level, alert_callbacks, stats, call, observed, fn, arg, res>>

engineVars == <<tables, database, engine, hash_seed, protocol_filter, ml_detector, enable_simulation,
                min_alert_level, alert_callbacks, stats, call, observed>>

harnessVars == <<fn, arg, res>>

----------------------------------------------------------------------------
(* Fixed point and small helpers *)

ONE == 1000000

\* 10^18 wei, in the amount unit
Ether == 10

Min(a, b) == IF a <= b THEN a ELSE b
Max(a, b) == IF a >= b THEN a ELSE b
Abs(a) == IF a >= 0 THEN a ELSE -a

\* nearest multiple of d to x, as a count of d's
RoundDiv(x, d) == (2 * x + d) \div (2 * d)

Hex(h) == [hex |-> h, lower |-> TRUE]
Mixed(h) == [hex |-> h, lower |-> FALSE]
Lower(s) == [s EXCEPT !.lower = TRUE]

None == [hex |-> "None", lower |-> TRUE]
EmptyStr == Hex("")

\* an absent object (an Optional that is None)
NoValue == [none |-> TRUE]
Falsy(s) == s = None \/ s = EmptyStr

RECURSIVE SeqSum(_)
SeqSum(s) == IF s = <<>> THEN 0 ELSE Head(s) + SeqSum(Tail(s))

RECURSIVE SeqMax(_)
SeqMax(s) == IF s = <<>> THEN 0 ELSE Max(Head(s), SeqMax(Tail(s)))

Range(s) == {s[i] : i \in DOMAIN s}

----------------------------------------------------------------------------
(* models/protocol_filter.py: tables *)

PROTOCOL_ADDRESSES ==
    (Hex("0x7a250d5630b4cf539739df2c5dacb4c659f2488d") :> "uniswap_v2") @@
    (Hex("0xe592427a0aece92de3edee1f18e0157c05861564") :> "uniswap_v3") @@
    (Hex("0x68b3465833fb72a70ecdf485e0e4c7bd8665fc45") :> "uniswap_v3") @@
    (Hex("0x000000000022d473030f116ddee9f6b43ac78ba3") :> "uniswap_v3") @@
    (Hex("0x3fc91a3afd70395cd496c647d5a6cc9d4b2b7fad") :> "uniswap_v3") @@
    (Hex("0xd9e1ce17f2641f24ae83637ab66a2cca9c378b9f") :> "sushiswap") @@
    (Hex("0x99a58482bd75cbab83b27ec03ca68ff489b5788f") :> "curve") @@
    (Hex("0xba12222222228d8ba445958a75a0704d566bf2c8") :> "balancer") @@
    (Hex("0x7d2768de32b0b80b7a3454c06bdac94a69ddc7a9") :> "aave_v2") @@
    (Hex("0x87870bca3f3fd6335c3f4ce8392d69350b4fa4e2") :> "aave_v3") @@
    (Hex("0x3d9819210a31b4961b30ef54be2aed79b9c9cd3b") :> "compound") @@
    (Hex("0x1111111254eeb25477b68fb85ed929f73a960582") :> "1inch") @@
    (Hex("0x111111125421ca6dc452d289314280a0f8842a65") :> "1inch") @@
    (Hex("0xae7ab96520de3a18e5e111b5eaab095312d7fe84") :> "lido") @@
    (Hex("0x5ef30b9986345249bc32d8928b7ee64de9435e39") :> "maker")

OPERATION_SELECTORS ==
    (Hex("0x38ed1739") :> "swap") @@
    (Hex("0x8803dbee") :> "swap") @@
    (Hex("0x7ff36ab5") :> "swap") @@
    (Hex("0x18cbafe5") :> "swap") @@
    (Hex("0x5c11d795") :> "swap") @@
    (Hex("0xb6f9de95") :> "swap") @@
    (Hex("0x791ac947") :> "swap") @@
    (Hex("0x04e45aaf") :> "swap") @@
    (Hex("0xc04b8d59") :> "swap") @@
    (Hex("0x472b43f3") :> "swap") @@
    (Hex("0x3593564c") :> "swap") @@
    (Hex("0x12aa3caf") :> "swap") @@
    (Hex("0xe449022e") :> "swap") @@
    (Hex("0xe8e33700") :> "add_liquidity") @@
    (Hex("0xf305d719") :> "add_liquidity") @@
    (Hex("0xbaa2abde") :> "remove_liquidity") @@
    (Hex("0x02751cec") :> "remove_liquidity") @@
    (Hex("0xe8eda9df") :> "deposit") @@
    (Hex("0x617ba037") :> "deposit") @@
    (Hex("0x69328dec") :> "withdraw") @@
    (Hex("0xa415bcad") :> "borrow") @@
    (Hex("0x573ade81") :> "repay") @@
    (Hex("0x00a718a9") :> "liquidate") @@
    (Hex("0xa0712d68") :> "deposit") @@
    (Hex("0xdb006a75") :> "withdraw") @@
    (Hex("0xc5ebeaec") :> "borrow") @@
    (Hex("0x0e752702") :> "repay") @@
    (Hex("0xa694fc3a") :> "stake") @@
    (Hex("0x2e1a7d4d") :> "unstake") @@
    (Hex("0x3d18b912") :> "claim_rewards") @@
    (Hex("0xe9fad8ee") :> "unstake") @@
    (Hex("0x15373e3d") :> "governance") @@
    (Hex("0x56781388") :> "governance")

\* OPERATION_BOUNDS; a key the source leaves out is 0 (the source's
\* `if max_gas and ...` treats an absent key and 0 alike).
\* max_value_usd is in dollars, eth_price dollars per 10^18 wei.

OPERATION_BOUNDS ==
    ("swap" :> [max_value_usd |-> 10000000, max_gas |-> 1000000, max_contracts |-> 15]) @@
    ("add_liquidity" :> [max_value_usd |-> 50000000, max_gas |-> 500000, max_contracts |-> 10]) @@
    ("deposit" :> [max_value_usd |-> 100000000, max_gas |-> 500000, max_contracts |-> 10]) @@
    ("borrow" :> [max_value_usd |-> 50000000, max_gas |-> 800000, max_contracts |-> 15]) @@
    ("flash_loan_arbitrage" :> [max_value_usd |-> 0, max_gas |-> 2000000, max_contracts |-> 0])

eth_price == 2000

----------------------------------------------------------------------------
(* features: the four sub-records and their empty values *)

Rat(n, d) == <<n, d>>
Zero == Rat(0, 1)

\* FlashLoanFeatures(False, 0, [], [], 0, False, [], False, False)
EmptyFlashLoan ==
    [has_flash_loan |-> FALSE, flash_loan_count |-> 0,
     flash_loan_providers |-> <<>>, flash_loan_amounts |-> <<>>,
     total_borrowed |-> 0, has_callback |-> FALSE,
     callback_selectors |-> <<>>, nested_flash_loans |-> FALSE,
     repayment_detected |-> FALSE]

\* StateVarianceExtractor._empty_features
EmptyStateVariance ==
    [total_storage_changes |-> 0, unique_contracts_modified |-> 0,
     unique_slots_modified |-> 0, balance_slot_changes |-> 0,
     large_value_changes |-> 0, max_value_delta |-> 0,
     avg_value_delta |-> Zero, variance_ratio |-> Zero,
     zero_to_nonzero |-> 0, nonzero_to_zero |-> 0]

\* BytecodeExtractor._empty_features (and _eoa_features, which is equal)
EmptyBytecode ==
    [bytecode_length |-> 0, bytecode_hash |-> "", is_contract |-> FALSE,
     is_proxy |-> FALSE, proxy_type |-> "None", contract_age_blocks |-> 0,
     is_verified |-> FALSE, matches_known_exploit |-> FALSE,
     matched_exploit_id |-> "None", jaccard_similarity |-> Zero,
     has_selfdestruct |-> FALSE, has_delegatecall |-> FALSE,
     has_create2 |-> FALSE, unique_opcodes |-> 0]

\* OpcodeExtractor._empty_features
EmptyOpcode ==
    [total_calls |-> 0, call_depth |-> 0, delegatecall_count |-> 0,
     staticcall_count |-> 0, create_count |-> 0, create2_count |-> 0,
     selfdestruct_count |-> 0, call_count |-> 0, internal_calls |-> 0,
     external_calls |-> 0, unique_call_types |-> 0,
     call_value_transfers |-> 0, gas_forwarded_ratio |-> Zero,
     revert_count |-> 0, opcode_frequency |-> <<>>]

AggregatedFeatures(fl, sv, bc, op, md) ==
    [flash_loan |-> fl, state_variance |-> sv, bytecode |-> bc,
     opcode |-> op, metadata |-> md]

\* dict.get(key, 0) on the metadata map
MetaGet(md, key) == IF key \in DOMAIN md THEN md[key] ELSE 0

\* transaction input: len is the length of the hex text, prefix its
\* first ten characters (all of it when shorter), amount the integer read
\* from characters 10..73 (when len >= 74; -1 when they are not hex digits),
\* code the bytecode the text carries (for a contract creation)
Input(len, prefix, amount, code) ==
    [len |-> len, prefix |-> prefix, amount |-> amount, code |-> code]

\* input_data[:10] if len(input_data) >= 10 else ""
SelectorOrEmpty(input_data) ==
    IF input_data.len >= 10 THEN input_data.prefix ELSE EmptyStr

----------------------------------------------------------------------------
(* models/protocol_filter.py: ProtocolFilter *)

\* __init__: keys of the address table are lower-cased
LowerKeys(tbl) ==
    [k \in {Lower(x) : x \in DOMAIN tbl} |->
        tbl[CHOOSE x \in DOMAIN tbl : Lower(x) = k]]

identify_protocol_CaseSensitive(protocol_addresses, to_address) ==
    IF Falsy(to_address) THEN "unknown"
    ELSE IF to_address \in DOMAIN protocol_addresses
         THEN protocol_addresses[to_address]
         ELSE "unknown"

identify_protocol(protocol_addresses, to_address) ==
    IF Falsy(to_address) THEN "unknown"
    ELSE IF Lower(to_address) \in DOMAIN protocol_addresses
         THEN protocol_addresses[Lower(to_address)]
         ELSE "unknown"

identify_operation(operation_selectors, input_data) ==
    IF input_data.len < 10 THEN "unknown"
    ELSE IF Lower(input_data.prefix) \in DOMAIN operation_selectors
         THEN operation_selectors[Lower(input_data.prefix)]
         ELSE "unknown"

\* returns <<within_bounds, violations>>
check_bounds(enable_bounds_check, operation, features) ==
    IF ~enable_bounds_check THEN <<TRUE, <<>>>>
    ELSE IF operation \notin DOMAIN OPERATION_BOUNDS THEN <<TRUE, <<>>>>
    ELSE
      LET bounds == OPERATION_BOUNDS[operation]
          v1 == IF bounds.max_gas # 0
                   /\ MetaGet(features.metadata, "gas_used") > bounds.max_gas
                THEN << <<"gas_exceeds", bounds.max_gas>> >> ELSE <<>>
          v2 == IF bounds.max_contracts # 0
                   /\ features.state_variance.unique_contracts_modified
                        > bounds.max_contracts
                THEN << <<"contracts_exceed", bounds.max_contracts>> >> ELSE <<>>
          v3 == IF bounds.max_value_usd # 0
                   \* max_value_delta / 1e18 * eth_price > max_value
                   /\ features.state_variance.max_value_delta * eth_price
                        > bounds.max_value_usd * Ether
                THEN << <<"value_exceeds", bounds.max_value_usd>> >> ELSE <<>>
          violations == v1 \o v2 \o v3
      IN <<Len(violations) = 0, violations>>

FlashLoanOperations == {"flash_loan_arbitrage", "flash_loan_collateral_swap", "liquidate"}

SafeOperations == {"swap", "add_liquidity", "deposit", "stake", "claim_rewards", "governance"}

\* the flash-loan term applied whatever the operation is
RawAdjustment_FlashAlways(operation, is_known_protocol, is_known_operation, within_bounds, features) ==
    (IF is_known_protocol /\ is_known_operation
     THEN -20 + (IF within_bounds THEN -10 ELSE 25)
     ELSE IF ~is_known_protocol /\ ~is_known_operation
     THEN 0
     ELSE -5)
    + (IF features.flash_loan.has_flash_loan THEN 35 ELSE 0)
    + (IF is_known_protocol /\ operation \in SafeOperations
          /\ within_bounds /\ ~features.flash_loan.has_flash_loan
       THEN -10 ELSE 0)

\* the sum before the final clamp, in hundredths
RawAdjustment(operation, is_known_protocol, is_known_operation, within_bounds, features) ==
    LET a1 == IF is_known_protocol /\ is_known_operation
              THEN -20 + (IF within_bounds THEN -10 ELSE 25)
              ELSE IF ~is_known_protocol /\ ~is_known_operation
              THEN 0
              ELSE (IF is_known_protocol THEN -5 ELSE 0)
                   + (IF is_known_operation THEN -5 ELSE 0)
        a2 == IF features.flash_loan.has_flash_loan
                 /\ operation \notin FlashLoanOperations
              THEN 35 ELSE 0
        a3 == IF is_known_protocol /\ operation \in SafeOperations
                 /\ within_bounds /\ ~features.flash_loan.has_flash_loan
              THEN -10 ELSE 0
    IN a1 + a2 + a3

\* max(-0.5, min(0.5, adjustment))
ClampAdjustment(adjustment) == Max(-50, Min(50, adjustment))

calculate_risk_adjustment(protocol, operation, is_known_protocol, is_known_operation, within_bounds, features) ==
    ClampAdjustment(RawAdjustment(operation, is_known_protocol,
                                  is_known_operation, within_bounds, features))

\* pf is the filter object: [protocol_addresses, operation_selectors,
\* enable_bounds_check]
get_context(pf, features, to_address, input_data) ==
    LET protocol == identify_protocol(pf.protocol_addresses, to_address)
        operation == identify_operation(pf.operation_selectors, input_data)
        is_known_protocol == protocol # "unknown"
        is_known_operation == operation # "unknown"
        cb == check_bounds(pf.enable_bounds_check, operation, features)
    IN [protocol |-> protocol,
        operation |-> operation,
        is_known_protocol |-> is_known_protocol,
        is_known_operation |-> is_known_operation,
        within_bounds |-> cb[1],
        bound_violations |-> cb[2],
        risk_adjustment |->
            calculate_risk_adjustment(protocol, operation, is_known_protocol,
                                      is_known_operation, cb[1], features)]

\* ProtocolFilter._generate_explanation: the parts, before ". ".join
filter_explanation(context, original, adjusted) ==
    (IF context.is_known_protocol
     THEN << <<"Known protocol", context.protocol>> >>
     ELSE << <<"Unknown protocol">> >>)
    \o (IF context.is_known_operation
        THEN << <<"Operation", context.operation>> >> ELSE <<>>)
    \o (IF ~context.within_bounds
        THEN << <<"Bound violations", context.bound_violations>> >> ELSE <<>>)
    \o (IF Abs(adjusted - original) * 100 > ONE
        THEN << <<IF adjusted < original THEN "Risk reduced by"
                  ELSE "Risk increased by",
                  \* {:.1%}: per mille, rounded
                  RoundDiv(Abs(adjusted - original) * 1000, ONE)>> >>
        ELSE <<>>)

\* original + adjustment * original, before the clamp to [0, 1]; the product
\* is rounded to the nearest representable value, as a float product is, so
\* for the smallest positive score (one unit) it rounds to zero
ApplyAdjustment(original_risk_score, risk_adjustment) ==
    original_risk_score + RoundDiv(risk_adjustment * original_risk_score, 100)

ClampScoreMissing(score) == score

\* max(0.0, min(1.0, adjusted_score))
ClampScore(score) == Max(0, Min(ONE, score))

ProtocolFilter_filter(pf, features, original_risk_score, to_address, input_data) ==
    LET context == get_context(pf, features, to_address, input_data)
        adjusted_score ==
            ClampScore(ApplyAdjustment(original_risk_score, context.risk_adjustment))
    IN [context |-> context,
        adjusted_risk_score |-> adjusted_score,
        original_risk_score |-> original_risk_score,
        explanation |-> filter_explanation(context, original_risk_score, adjusted_score),
        should_alert |-> 2 * adjusted_score >= ONE]

\* ProtocolFilter(): the default tables, bounds check on
DefaultProtocolFilter ==
    [protocol_addresses |-> LowerKeys(PROTOCOL_ADDRESSES),
     operation_selectors |-> OPERATION_SELECTORS,
     enable_bounds_check |-> TRUE]

\* add_operation(selector, operation)
add_operation(pf, selector, operation) ==
    [pf EXCEPT !.operation_selectors = (Lower(selector) :> operation) @@ @]

----------------------------------------------------------------------------
(* data/collectors/mempool_listener.py: PendingTransaction *)

PendingTransaction(hash, to_address, value, gas, input_data) ==
    [hash |-> hash, from_address |-> Hex("0x000000000000000000000000000000000000f00d"),
     to_address |-> to_address, value |-> value, gas |-> gas,
     input_data |-> input_data]

\* len(self.input_data) > 2
is_contract_interaction(tx) == tx.to_address # None /\ tx.input_data.len > 2

is_contract_creation(tx) == tx.to_address = None /\ tx.input_data.len > 2

\* self.input_data == "0x" or self.input_data == ""
is_simple_transfer(tx) ==
    \/ (tx.input_data.len = 2 /\ tx.input_data.prefix = Hex("0x"))
    \/ tx.input_data.len = 0

\* PendingTransaction.selector: None when the input is shorter than 10
tx_selector(tx) == IF tx.input_data.len >= 10 THEN tx.input_data.prefix ELSE None

----------------------------------------------------------------------------
(* models/heuristics.py: HeuristicFilter *)

SAFE_SELECTORS ==
    {Hex("0xa9059cbb"), Hex("0x23b872dd"), Hex("0x095ea7b3"), Hex("0x70a08231"),
     Hex("0x18160ddd"), Hex("0xdd62ed3e"), Hex("0x313ce567"), Hex("0x06fdde03"),
     Hex("0x95d89b41"), Hex("0x40c10f19"), Hex("0x42842e0e"), Hex("0xb88d4fde"),
     Hex("0x6352211e"), Hex("0xe985e9c5"), Hex("0xa22cb465")}

SUSPICIOUS_SELECTORS ==
    {Hex("0x5cffe9de"), Hex("0xab9c4b5d"), Hex("0xc1a8a1f5"), Hex("0x490e6cbc"),
     Hex("0x9c3f1e90"), Hex("0x022c0d9f"), Hex("0x128acb08"), Hex("0x7c025200"),
     Hex("0x12aa3caf"), Hex("0xe449022e"), Hex("0x0502b1c5"), Hex("0xb6f9de95"),
     Hex("0x791ac947")}

WHITELISTED_CONTRACTS ==
    {Hex("0xc02aaa39b223fe8d0a0e5c4f27ead9083c756cc2"),
     Hex("0xa0b86991c6218b36c1d19d4a2e9eb0ce3606eb48"),
     Hex("0xdac17f958d2ee523a2206206994597c13d831ec7"),
     Hex("0x6b175474e89094c44da98b954eedeac495271d0f"),
     Hex("0x7d2768de32b0b80b7a3454c06bdac94a69ddc7a9"),
     Hex("0x87870bca3f3fd6335c3f4ce8392d69350b4fa4e2"),
     Hex("0x7a250d5630b4cf539739df2c5dacb4c659f2488d"),
     Hex("0xe592427a0aece92de3edee1f18e0157c05861564"),
     Hex("0x68b3465833fb72a70ecdf485e0e4c7bd8665fc45"),
     Hex("0xba12222222228d8ba445958a75a0704d566bf2c8"),
     Hex("0xdef1c0ded9bec7f1a1670819833240f027b25eff"),
     Hex("0x1111111254eeb25477b68fb85ed929f73a960582")}

max_safe_gas == 100000

\* 10**18
min_suspicious_value == Ether

\* HeuristicFilter(): the default tables
DefaultHeuristicFilter ==
    [safe_selectors |-> SAFE_SELECTORS,
     suspicious_selectors |-> SUSPICIOUS_SELECTORS,
     whitelisted_contracts |-> {Lower(a) : a \in WHITELISTED_CONTRACTS},
     max_safe_gas |-> max_safe_gas,
     min_suspicious_value |-> min_suspicious_value]

\* the mutable objects of the two modules that a filter built without
\* arguments takes as they are: the sets SAFE_SELECTORS and
\* SUSPICIOUS_SELECTORS and the dict OPERATION_SELECTORS
ModuleTables ==
    [SAFE_SELECTORS |-> SAFE_SELECTORS,
     SUSPICIOUS_SELECTORS |-> SUSPICIOUS_SELECTORS,
     OPERATION_SELECTORS |-> OPERATION_SELECTORS]

HeuristicResult(result, confidence, reasons, should_analyze, risk_indicators) ==
    [result |-> result, confidence |-> confidence, reasons |-> reasons,
     should_analyze |-> should_analyze, risk_indicators |-> risk_indicators]

\* confidence 0.99 as fixed point
SimpleTransferConfidence == (99 * ONE) \div 100

\* add_safe_selector(selector)
add_safe_selector(hf, selector) ==
    [hf EXCEPT !.safe_selectors = @ \cup {selector}]

\* two reasons give SAFE whatever the indicators are
FilterByTable_ReasonsFirst(hf, tx) ==
    LET sel == tx_selector(tx)
        reasons ==
            (IF tx.gas < hf.max_safe_gas /\ tx.value = 0
             THEN <<"low_gas_no_value">> ELSE <<>>)
            \o (IF ~Falsy(tx.to_address)
                   /\ Lower(tx.to_address) \in hf.whitelisted_contracts
                THEN <<"whitelisted_contract">> ELSE <<>>)
            \o (IF ~Falsy(sel) /\ sel \in hf.safe_selectors
                THEN <<"safe_selector">> ELSE <<>>)
        risk_indicators ==
            (IF ~Falsy(sel) /\ sel \notin hf.safe_selectors
                   /\ sel \in hf.suspicious_selectors
             THEN <<"suspicious_selector">> ELSE <<>>)
            \o (IF is_contract_creation(tx)
                THEN <<"contract_creation">> ELSE <<>>)
            \o (IF tx.value >= hf.min_suspicious_value
                THEN <<"large_value_transfer">> ELSE <<>>)
            \o (IF tx.gas > 1000000 THEN <<"high_gas_limit">> ELSE <<>>)
    IN IF Len(reasons) >= 2
       THEN HeuristicResult("safe", (9 * ONE) \div 10, reasons, FALSE, <<>>)
       ELSE IF Len(risk_indicators) >= 2
       THEN HeuristicResult("suspicious", (7 * ONE) \div 10, reasons, TRUE,
                            risk_indicators)
       ELSE HeuristicResult("unknown", ONE \div 2, reasons, TRUE, risk_indicators)

\* HeuristicFilter.filter(tx) past the simple-transfer return
FilterByTable(hf, tx) ==
      LET sel == tx_selector(tx)
          reasons ==
              (IF tx.gas < hf.max_safe_gas /\ tx.value = 0
               THEN <<"low_gas_no_value">> ELSE <<>>)
              \o (IF ~Falsy(tx.to_address)
                     /\ Lower(tx.to_address) \in hf.whitelisted_contracts
                  THEN <<"whitelisted_contract">> ELSE <<>>)
              \o (IF ~Falsy(sel) /\ sel \in hf.safe_selectors
                  THEN <<"safe_selector">> ELSE <<>>)
          risk_indicators ==
              (IF ~Falsy(sel) /\ sel \notin hf.safe_selectors
                     /\ sel \in hf.suspicious_selectors
               THEN <<"suspicious_selector">> ELSE <<>>)
              \o (IF is_contract_creation(tx)
                  THEN <<"contract_creation">> ELSE <<>>)
              \o (IF tx.value >= hf.min_suspicious_value
                  THEN <<"large_value_transfer">> ELSE <<>>)
              \o (IF tx.gas > 1000000 THEN <<"high_gas_limit">> ELSE <<>>)
      IN IF Len(reasons) >= 2 /\ risk_indicators = <<>>
         THEN HeuristicResult("safe", (9 * ONE) \div 10, reasons, FALSE, <<>>)
         ELSE IF Len(risk_indicators) >= 2
         THEN HeuristicResult("suspicious", (7 * ONE) \div 10, reasons, TRUE,
                              risk_indicators)
         ELSE HeuristicResult("unknown", ONE \div 2, reasons, TRUE, risk_indicators)

HeuristicFilter_filter_NoShortCut(hf, tx) == FilterByTable(hf, tx)

\* HeuristicFilter.filter(tx)
HeuristicFilter_filter(hf, tx) ==
    IF is_simple_transfer(tx)
    THEN HeuristicResult("safe", SimpleTransferConfidence,
                         <<"simple_eth_transfer">>, FALSE, <<>>)
    ELSE FilterByTable(hf, tx)

\* quick_filter looking the address up as written
quick_filter_CaseSensitive(hf, tx) ==
    IF is_simple_transfer(tx) THEN FALSE
    ELSE IF tx.gas < hf.max_safe_gas THEN FALSE
    ELSE IF /\ ~Falsy(tx.to_address)
            /\ tx.to_address \in hf.whitelisted_contracts
            /\ ~Falsy(tx_selector(tx))
            /\ tx_selector(tx) \in hf.safe_selectors THEN FALSE
    ELSE TRUE

\* HeuristicFilter.quick_filter(tx): True when the transaction needs analysis
quick_filter(hf, tx) ==
    IF is_simple_transfer(tx) THEN FALSE
    ELSE IF tx.gas < hf.max_safe_gas THEN FALSE
    ELSE IF /\ ~Falsy(tx.to_address)
            /\ Lower(tx.to_address) \in hf.whitelisted_contracts
            /\ ~Falsy(tx_selector(tx))
            /\ tx_selector(tx) \in hf.safe_selectors THEN FALSE
    ELSE TRUE

\* variance_ratio > 0.5, on the squared ratio <<p, q>>
RatioAboveHalf(r2) == 4 * r2[1] > r2[2]

\* a quotient <<n, d>> above tenths / 10
RatAbove(r, tenths) == 10 * r[1] > tenths * r[2]

\* indicators appended before the known-exploit test
IndicatorsBeforeExploit(features) ==
    LET has_flash_loan == features.flash_loan.has_flash_loan
        has_large_changes == features.state_variance.large_value_changes > 3
        has_many_transfers == features.state_variance.total_storage_changes > 10
        has_high_value == features.state_variance.max_value_delta > 10000 * Ether
    IN (IF has_flash_loan
        THEN <<"flash_loan_detected">>
             \o (IF features.flash_loan.nested_flash_loans
                 THEN <<"nested_flash_loans">> ELSE <<>>)
             \o (IF features.flash_loan.total_borrowed > 1000000 * Ether
                 THEN <<"large_flash_loan">> ELSE <<>>)
             \o (IF has_large_changes \/ has_many_transfers \/ has_high_value
                 THEN <<"flash_loan_with_complex_activity">> ELSE <<>>)
        ELSE <<>>)
       \o (IF RatioAboveHalf(features.state_variance.variance_ratio)
           THEN <<"high_state_variance">> ELSE <<>>)
       \o (IF has_large_changes THEN <<"multiple_large_changes">> ELSE <<>>)
       \o (IF has_high_value THEN <<"extreme_value_movement">> ELSE <<>>)

\* indicators appended after it
IndicatorsAfterExploit(features) ==
    (IF RatAbove(features.bytecode.jaccard_similarity, 7)
     THEN <<"high_bytecode_similarity">> ELSE <<>>)
    \o (IF features.bytecode.contract_age_blocks < 100
        THEN <<"new_contract">> ELSE <<>>)
    \o (IF features.bytecode.has_selfdestruct
        THEN <<"selfdestruct_opcode">> ELSE <<>>)
    \o (IF features.opcode.delegatecall_count > 0
        THEN <<"uses_delegatecall">> ELSE <<>>)
    \o (IF features.opcode.create2_count > 0 THEN <<"uses_create2">> ELSE <<>>)
    \o (IF features.opcode.call_depth > 10 THEN <<"deep_call_stack">> ELSE <<>>)
    \o (IF features.opcode.total_calls > 50 THEN <<"high_call_count">> ELSE <<>>)

\* SUSPICIOUS from two indicators on
VerdictByCount_FromTwo(risk_indicators) ==
    IF Len(risk_indicators) = 0
    THEN HeuristicResult("safe", (8 * ONE) \div 10, <<"no_risk_indicators">>,
                         FALSE, <<>>)
    ELSE IF Len(risk_indicators) >= 2
    THEN HeuristicResult("suspicious",
                         Min(ONE \div 2 + Len(risk_indicators) * (ONE \div 10),
                             (95 * ONE) \div 100),
                         <<>>, TRUE, risk_indicators)
    ELSE HeuristicResult("unknown", ONE \div 2, <<>>, TRUE, risk_indicators)

\* the verdict by the number of indicators
VerdictByCount(risk_indicators) ==
    IF Len(risk_indicators) = 0
    THEN HeuristicResult("safe", (8 * ONE) \div 10, <<"no_risk_indicators">>,
                         FALSE, <<>>)
    ELSE IF Len(risk_indicators) >= 3
    THEN HeuristicResult("suspicious",
                         Min(ONE \div 2 + Len(risk_indicators) * (ONE \div 10),
                             (95 * ONE) \div 100),
                         <<>>, TRUE, risk_indicators)
    ELSE HeuristicResult("unknown", ONE \div 2, <<>>, TRUE, risk_indicators)

filter_with_features_NoShortCircuit(features) ==
    VerdictByCount(
        IndicatorsBeforeExploit(features)
        \o (IF features.bytecode.matches_known_exploit
            THEN <<"matches_known_exploit">> ELSE <<>>)
        \o IndicatorsAfterExploit(features))

\* HeuristicFilter.filter_with_features(features)
filter_with_features(features) ==
    IF features.bytecode.matches_known_exploit
    THEN HeuristicResult("suspicious", (95 * ONE) \div 100, <<>>, TRUE,
                         IndicatorsBeforeExploit(features)
                         \o <<"matches_known_exploit">>)
    ELSE VerdictByCount(IndicatorsBeforeExploit(features)
                        \o IndicatorsAfterExploit(features))

----------------------------------------------------------------------------
(* data/collectors/fork_replayer.py: the trace value types *)

\* data is read through amount: the integer in data[2:66], -1 when the
\* word is not hex, -2 when the data is shorter than 66 characters;
\* topics is the sequence of topics
TraceLog(address, topics, amount) ==
    [address |-> address, topics |-> topics, amount |-> amount]

TraceCall(call_type, to_address, value, gas, gas_used, input_data, children) ==
    [call_type |-> call_type, to_address |-> to_address, value |-> value,
     gas |-> gas, gas_used |-> gas_used, input_data |-> input_data,
     children |-> children]

\* slot, previous_value, new_value: the integer the hex text denotes,
\* -1 when the text is not hex
StorageChange(address, slot, previous_value, new_value) ==
    [address |-> address, slot |-> slot, previous_value |-> previous_value,
     new_value |-> new_value]

NoCallTrace == [none |-> TRUE]

\* `if trace.call_trace:`
HasCallTrace(trace) == trace.call_trace # NoCallTrace

\* the calls of the tree in the order a depth-first walk visits them
RECURSIVE WalkCalls(_, _)
RECURSIVE WalkChildren(_, _)
WalkCalls(c, depth) ==
    << [call |-> c, depth |-> depth] >> \o WalkChildren(c.children, depth + 1)
WalkChildren(children, depth) ==
    IF children = <<>> THEN <<>>
    ELSE WalkCalls(Head(children), depth) \o WalkChildren(Tail(children), depth)

----------------------------------------------------------------------------
(* features/extractors/flash_loan.py *)

FLASH_LOAN_SIGNATURES ==
    {Hex("0x5cffe9de"), Hex("0xab9c4b5d"), Hex("0xe0232b42"), Hex("0xc1a8a1f5"),
     Hex("0x490e6cbc"), Hex("0x9c3f1e90"), Hex("0xd9d98ce4"), Hex("0x35ea6a75")}

FLASH_LOAN_PROVIDERS ==
    (Hex("0x7d2768de32b0b80b7a3454c06bdac94a69ddc7a9") :> "aave_v2") @@
    (Hex("0x87870bca3f3fd6335c3f4ce8392d69350b4fa4e2") :> "aave_v3") @@
    (Hex("0x5c69bee701ef814a2b6a3edd4b1652cb9cc5aa6f") :> "uniswap_v2") @@
    (Hex("0x1f98431c8ad98523631ae4a59f267346ea31f984") :> "uniswap_v3") @@
    (Hex("0xba12222222228d8ba445958a75a0704d566bf2c8") :> "balancer") @@
    (Mixed("0x6bdc1fcb2f13d1ba9d26ccec3983d5d4bf318f57") :> "dydx") @@
    (Hex("0xc02aaa39b223fe8d0a0e5c4f27ead9083c756cc2") :> "weth")

CALLBACK_SIGNATURES ==
    {Hex("0x23e30c8b"), Hex("0xee872558"), Hex("0x920f5c84"), Hex("0xfa461e33"),
     Hex("0x10d1e85c"), Hex("0x84800812")}

FLASH_LOAN_EVENT_TOPICS ==
    ("0x631042c832b07452973831137f2d73e395028b44b250dedc5abb0ee766e168ac" :> "aave_v2_flashloan") @@
    ("0xefefaba5e921573100900a3ad9cf29f222d995fb3b6045797eaea7521f5de7a0" :> "aave_v3_flashloan") @@
    ("0x0d7d75e01ab95780d3cd1c8ec0dd6c2ce19f3a05cdb8d28c4c21e1e1d2b0c92a" :> "balancer_flashloan") @@
    ("0x76e3a82f8c87c7f3bd4c86ab5f5e2769efb99a8746b0a5c9b73d86db9d0af09e" :> "dydx_flashloan")

transfer_topic == "0xddf252ad1be2c89b69c2b068fc378daa952ba7f163c4a11628f55a4df523b3ef"

\* FlashLoanExtractor.__init__: provider keys lower-cased
provider_addresses == LowerKeys(FLASH_LOAN_PROVIDERS)

\* the order in which list(set) yields provider tags: fixed for one
\* interpreter process by its string-hash seed, here the rank up or down
ProviderRank ==
    ("aave_v2" :> 1) @@ ("aave_v3" :> 2) @@ ("uniswap_v2" :> 3) @@
    ("uniswap_v3" :> 4) @@ ("balancer" :> 5) @@ ("dydx" :> 6) @@ ("weth" :> 7) @@
    ("aave_v2_flashloan" :> 8) @@ ("aave_v3_flashloan" :> 9) @@
    ("balancer_flashloan" :> 10) @@ ("dydx_flashloan" :> 11)

RECURSIVE ListOfSet(_, _)
ListOfSet(S, seed) ==
    IF S = {} THEN <<>>
    ELSE LET x == CHOOSE y \in S :
                    \A z \in S : IF seed = 0
                                 THEN ProviderRank[y] <= ProviderRank[z]
                                 ELSE ProviderRank[y] >= ProviderRank[z]
         IN <<x>> \o ListOfSet(S \ {x}, seed)

\* `if not log.topics: continue`, then topics[0]
HasTopics(log) == log.topics # <<>>

\* _extract_amount_from_log_data
extract_amount_from_log_data(log) == IF log.amount < 0 THEN 0 ELSE log.amount

\* _extract_amount_from_input: 0 when shorter than 74 or not hex
extract_amount_from_input(input_data) ==
    IF input_data.len < 74 THEN 0
    ELSE IF input_data.amount < 0 THEN 0 ELSE input_data.amount

\* _detect_flash_loans_from_logs
detect_flash_loans_from_logs(logs) ==
    LET IsFlash(log) == HasTopics(log) /\ log.topics[1] \in DOMAIN FLASH_LOAN_EVENT_TOPICS
        hits == SelectSeq(logs, IsFlash)
    IN [i \in DOMAIN hits |->
           [provider |-> FLASH_LOAN_EVENT_TOPICS[hits[i].topics[1]],
            amount |-> extract_amount_from_log_data(hits[i]),
            address |-> hits[i].address]]

\* _detect_repayment_from_logs
detect_repayment_from_logs(logs) ==
    LET IsTransfer(log) == HasTopics(log) /\ log.topics[1] = transfer_topic
    IN Len(SelectSeq(logs, IsTransfer)) >= 2

\* _detect_nested_flash_loans
detect_nested_flash_loans(flash_loan_calls) ==
    IF Len(flash_loan_calls) <= 1 THEN FALSE
    ELSE Cardinality({flash_loan_calls[i].depth : i \in DOMAIN flash_loan_calls}) > 1

\* _detect_repayment / _has_transfer_call
detect_repayment(trace) ==
    IF ~HasCallTrace(trace) THEN FALSE
    ELSE LET calls == WalkCalls(trace.call_trace, 0)
         IN \E i \in DOMAIN calls :
               SelectorOrEmpty(calls[i].call.input_data)
                   \in {Hex("0xa9059cbb"), Hex("0x23b872dd")}

\* the call of the tree on which _analyze_call_tree raises:
\* call.to_address.lower() on a flash-loan call that has no to-address
FlashLoanWalkRaises(trace) ==
    /\ HasCallTrace(trace)
    /\ LET calls == WalkCalls(trace.call_trace, 0)
       IN \E i \in DOMAIN calls :
             /\ SelectorOrEmpty(calls[i].call.input_data) \in FLASH_LOAN_SIGNATURES
             /\ calls[i].call.to_address = None

\* FlashLoanExtractor.extract(trace)
FlashLoanExtractor_extract(trace, seed) ==
    LET walk == IF HasCallTrace(trace) THEN WalkCalls(trace.call_trace, 0) ELSE <<>>
        IsFlash(n) == SelectorOrEmpty(n.call.input_data) \in FLASH_LOAN_SIGNATURES
        IsCallback(n) == SelectorOrEmpty(n.call.input_data) \in CALLBACK_SIGNATURES
        HasAmount(n) == extract_amount_from_input(n.call.input_data) > 0
        flash_loan_calls == SelectSeq(walk, IsFlash)
        callback_nodes == SelectSeq(walk, IsCallback)
        callback_calls == [i \in DOMAIN callback_nodes |->
                              SelectorOrEmpty(callback_nodes[i].call.input_data)]
        tree_providers ==
            {provider_addresses[Lower(flash_loan_calls[i].call.to_address)] :
                i \in {j \in DOMAIN flash_loan_calls :
                         Lower(flash_loan_calls[j].call.to_address)
                             \in DOMAIN provider_addresses}}
        paying == SelectSeq(flash_loan_calls, HasAmount)
        tree_amounts == [i \in DOMAIN paying |->
                            extract_amount_from_input(paying[i].call.input_data)]
        log_flash_loans == detect_flash_loans_from_logs(trace.logs)
        LogPays(fl) == fl.amount > 0
        log_paying == SelectSeq(log_flash_loans, LogPays)
        providers == tree_providers
                     \cup {log_flash_loans[i].provider : i \in DOMAIN log_flash_loans}
        amounts == tree_amounts \o [i \in DOMAIN log_paying |-> log_paying[i].amount]
        has_flash_loan_input == SelectorOrEmpty(trace.input_data) \in FLASH_LOAN_SIGNATURES
        has_flash_loan == flash_loan_calls # <<>> \/ has_flash_loan_input
                          \/ log_flash_loans # <<>>
    IN [has_flash_loan |-> has_flash_loan,
        flash_loan_count |-> Max(Len(flash_loan_calls), Len(log_flash_loans)),
        flash_loan_providers |-> ListOfSet(providers, seed),
        flash_loan_amounts |-> amounts,
        total_borrowed |-> SeqSum(amounts),
        has_callback |-> callback_calls # <<>> \/ has_flash_loan,
        callback_selectors |-> callback_calls,
        nested_flash_loans |-> detect_nested_flash_loans(flash_loan_calls),
        repayment_detected |-> detect_repayment(trace)
                               \/ detect_repayment_from_logs(trace.logs)]

\* FlashLoanExtractor.extract_from_input(input_data, to_address)
extract_from_input(input_data, to_address) ==
    LET has_flash_loan == SelectorOrEmpty(input_data) \in FLASH_LOAN_SIGNATURES
        provider == IF ~Falsy(to_address) /\ Lower(to_address) \in DOMAIN provider_addresses
                    THEN provider_addresses[Lower(to_address)] ELSE ""
    IN [has_flash_loan |-> has_flash_loan,
        flash_loan_count |-> IF has_flash_loan THEN 1 ELSE 0,
        flash_loan_providers |-> IF provider # "" THEN <<provider>> ELSE <<>>,
        flash_loan_amounts |-> <<>>,
        total_borrowed |-> 0,
        has_callback |-> FALSE,
        callback_selectors |-> <<>>,
        nested_flash_loans |-> FALSE,
        repayment_detected |-> FALSE]

\* FlashLoanFeatures.to_vector
FlashLoanFeatures_to_vector(f) ==
    << IF f.has_flash_loan THEN Rat(1, 1) ELSE Zero,
       Rat(f.flash_loan_count, 1),
       Rat(Len(f.flash_loan_providers), 1),
       IF f.total_borrowed > 0 THEN Rat(f.total_borrowed, Ether) ELSE Zero,
       IF f.has_callback THEN Rat(1, 1) ELSE Zero,
       Rat(Len(f.callback_selectors), 1),
       IF f.nested_flash_loans THEN Rat(1, 1) ELSE Zero,
       IF f.repayment_detected THEN Rat(1, 1) ELSE Zero >>

----------------------------------------------------------------------------
(* features/extractors/state_variance.py *)

BALANCE_SLOTS == 0..5

large_change_threshold == Ether

\* _hex_to_int: 0 for text that is empty, "0x" or not hex
hex_to_int(v) == IF v < 0 THEN 0 ELSE v

\* _is_balance_slot
is_balance_slot(slot) == slot \in BALANCE_SLOTS \/ (slot >= 0 /\ slot < 10)

RECURSIVE Gcd(_, _)
Gcd(a, b) == IF b = 0 THEN a ELSE Gcd(b, a % b)

RECURSIVE SeqGcd(_)
SeqGcd(s) == IF s = <<>> THEN 0 ELSE Gcd(Head(s), SeqGcd(Tail(s)))

\* _calculate_variance_ratio, as the square of the quotient it returns:
\* variance / mean^2 = (n * sum(v^2) - sum(v)^2) / sum(v)^2, computed on
\* the values divided by their common divisor, which leaves it unchanged
calculate_variance_ratio(values) ==
    IF Len(values) < 2 THEN Zero
    ELSE IF SeqSum(values) = 0 THEN Zero
    ELSE LET g == SeqGcd(values)
             scaled == [i \in DOMAIN values |-> values[i] \div g]
             squares == [i \in DOMAIN scaled |-> scaled[i] * scaled[i]]
             total == SeqSum(scaled)
         IN Rat(Len(scaled) * SeqSum(squares) - total * total, total * total)

\* _extract_from_trace_logs
extract_from_trace_logs(logs) ==
    LET IsTransfer(log) == HasTopics(log) /\ log.topics[1] = transfer_topic
        HasWord(log) == log.amount >= 0
        transfers == SelectSeq(logs, IsTransfer)
        worded == SelectSeq(transfers, HasWord)
        amounts == [i \in DOMAIN worded |-> worded[i].amount]
        IsLarge(a) == a >= large_change_threshold
        transfer_count == Len(transfers)
    IN [total_storage_changes |-> transfer_count,
        unique_contracts_modified |-> Cardinality({Lower(logs[i].address) : i \in DOMAIN logs}),
        unique_slots_modified |-> transfer_count,
        balance_slot_changes |-> transfer_count,
        large_value_changes |-> Len(SelectSeq(amounts, IsLarge)),
        max_value_delta |-> SeqMax(amounts),
        avg_value_delta |-> IF amounts # <<>> THEN Rat(SeqSum(amounts), Len(amounts)) ELSE Zero,
        variance_ratio |-> calculate_variance_ratio(amounts),
        zero_to_nonzero |-> 0,
        nonzero_to_zero |-> 0]

\* StateVarianceExtractor.extract(trace)
StateVarianceExtractor_extract(trace) ==
    LET changes == trace.storage_changes
        prev(i) == hex_to_int(changes[i].previous_value)
        new(i) == hex_to_int(changes[i].new_value)
        deltas == [i \in DOMAIN changes |-> Abs(new(i) - prev(i))]
        Count(S) == Cardinality(S)
    IN IF changes = <<>>
       THEN IF trace.logs # <<>> THEN extract_from_trace_logs(trace.logs)
            ELSE EmptyStateVariance
       ELSE [total_storage_changes |-> Len(changes),
             unique_contracts_modified |->
                 Count({Lower(changes[i].address) : i \in DOMAIN changes}),
             unique_slots_modified |->
                 Count({<<changes[i].address, changes[i].slot>> : i \in DOMAIN changes}),
             balance_slot_changes |->
                 Count({i \in DOMAIN changes : is_balance_slot(changes[i].slot)}),
             large_value_changes |->
                 Count({i \in DOMAIN changes : deltas[i] >= large_change_threshold}),
             max_value_delta |-> SeqMax(deltas),
             avg_value_delta |-> Rat(SeqSum(deltas), Len(deltas)),
             variance_ratio |-> calculate_variance_ratio(deltas),
             zero_to_nonzero |->
                 Count({i \in DOMAIN changes : prev(i) = 0 /\ new(i) # 0}),
             nonzero_to_zero |->
                 Count({i \in DOMAIN changes : prev(i) # 0 /\ new(i) = 0})]

\* StateVarianceFeatures.to_vector
StateVarianceFeatures_to_vector(f) ==
    << Rat(f.total_storage_changes, 1),
       Rat(f.unique_contracts_modified, 1),
       Rat(f.unique_slots_modified, 1),
       Rat(f.balance_slot_changes, 1),
       Rat(f.large_value_changes, 1),
       IF f.max_value_delta > 0 THEN Rat(f.max_value_delta, Ether) ELSE Zero,
       IF f.avg_value_delta[1] > 0
       THEN Rat(f.avg_value_delta[1], f.avg_value_delta[2] * Ether) ELSE Zero,
       f.variance_ratio,
       Rat(f.zero_to_nonzero, 1),
       Rat(f.nonzero_to_zero, 1) >>

----------------------------------------------------------------------------
(* features/extractors/opcode.py *)

CALL_TYPE_OPCODES ==
    {"CALL", "STATICCALL", "DELEGATECALL", "CALLCODE", "CREATE", "CREATE2"}

\* dict.get(key, 0)
DictGet(d, key) == IF key \in DOMAIN d THEN d[key] ELSE 0

\* OpcodeExtractor._analyze_call_tree(call), the totals over the tree
analyze_call_tree(root) ==
    LET walk == WalkCalls(root, 0)
        types == {walk[i].call.call_type : i \in DOMAIN walk}
        Count(S) == Cardinality(S)
        External(c) == c.call_type \in {"CALL", "STATICCALL", "DELEGATECALL", "CALLCODE"}
        total_gas == SeqSum([i \in DOMAIN walk |-> walk[i].call.gas])
        used_gas == SeqSum([i \in DOMAIN walk |-> walk[i].call.gas_used])
    IN [total_calls |-> Len(walk),
        max_depth |-> SeqMax([i \in DOMAIN walk |-> walk[i].depth]),
        call_types |-> [t \in types |->
                           Count({i \in DOMAIN walk : walk[i].call.call_type = t})],
        internal_calls |-> Count({i \in DOMAIN walk : ~External(walk[i].call)}),
        external_calls |-> Count({i \in DOMAIN walk : External(walk[i].call)}),
        value_transfers |-> Count({i \in DOMAIN walk : walk[i].call.value > 0}),
        total_gas |-> total_gas,
        used_gas |-> used_gas,
        reverts |-> 0,
        gas_ratio |-> IF total_gas > 0 THEN Rat(used_gas, total_gas) ELSE Zero]

RECURSIVE SumOver(_, _)
SumOver(d, keys) ==
    IF keys = {} THEN 0
    ELSE LET k == CHOOSE x \in keys : TRUE
         IN DictGet(d, k) + SumOver(d, keys \ {k})

\* _from_opcode_counts
from_opcode_counts(opcodes) ==
    [total_calls |-> SumOver(opcodes, DOMAIN opcodes),
     call_depth |-> 0,
     delegatecall_count |-> DictGet(opcodes, "DELEGATECALL"),
     staticcall_count |-> DictGet(opcodes, "STATICCALL"),
     create_count |-> DictGet(opcodes, "CREATE"),
     create2_count |-> DictGet(opcodes, "CREATE2"),
     selfdestruct_count |-> DictGet(opcodes, "SELFDESTRUCT"),
     call_count |-> DictGet(opcodes, "CALL"),
     internal_calls |-> 0,
     external_calls |-> SumOver(opcodes, CALL_TYPE_OPCODES),
     unique_call_types |-> Cardinality(DOMAIN opcodes \cap CALL_TYPE_OPCODES),
     call_value_transfers |-> 0,
     gas_forwarded_ratio |-> Zero,
     revert_count |-> DictGet(opcodes, "REVERT"),
     opcode_frequency |-> opcodes]

\* _estimate_from_logs
estimate_from_logs(logs, gas_used) ==
    LET IsTransfer(log) == HasTopics(log) /\ log.topics[1] = transfer_topic
        estimated_calls == Cardinality({Lower(logs[i].address) : i \in DOMAIN logs})
        estimated_depth == IF estimated_calls > 3
                           THEN Min(estimated_calls \div 3, 10) ELSE 1
    IN [total_calls |-> estimated_calls,
        call_depth |-> estimated_depth,
        delegatecall_count |-> 0,
        staticcall_count |-> 0,
        create_count |-> 0,
        create2_count |-> 0,
        selfdestruct_count |-> 0,
        call_count |-> estimated_calls,
        internal_calls |-> 0,
        external_calls |-> estimated_calls,
        unique_call_types |-> IF estimated_calls > 0 THEN 1 ELSE 0,
        call_value_transfers |-> Len(SelectSeq(logs, IsTransfer)),
        gas_forwarded_ratio |-> IF gas_used > 500000 THEN Rat(4, 5) ELSE Rat(1, 2),
        revert_count |-> 0,
        opcode_frequency |-> <<>>]

\* OpcodeExtractor.extract(trace)
OpcodeExtractor_extract(trace) ==
    IF ~HasCallTrace(trace)
    THEN IF DOMAIN trace.opcodes # {} THEN from_opcode_counts(trace.opcodes)
         ELSE IF trace.logs # <<>> THEN estimate_from_logs(trace.logs, trace.gas_used)
         ELSE EmptyOpcode
    ELSE LET tree == analyze_call_tree(trace.call_trace)
             keys == DOMAIN trace.opcodes \cup DOMAIN tree.call_types
         IN [total_calls |-> tree.total_calls,
             call_depth |-> tree.max_depth,
             delegatecall_count |-> DictGet(tree.call_types, "DELEGATECALL"),
             staticcall_count |-> DictGet(tree.call_types, "STATICCALL"),
             create_count |-> DictGet(tree.call_types, "CREATE"),
             create2_count |-> DictGet(tree.call_types, "CREATE2"),
             selfdestruct_count |-> DictGet(tree.call_types, "SELFDESTRUCT"),
             call_count |-> DictGet(tree.call_types, "CALL"),
             internal_calls |-> tree.internal_calls,
             external_calls |-> tree.external_calls,
             unique_call_types |-> Cardinality(DOMAIN tree.call_types),
             call_value_transfers |-> tree.value_transfers,
             gas_forwarded_ratio |-> tree.gas_ratio,
             revert_count |-> tree.reverts,
             opcode_frequency |->
                 [k \in keys |-> DictGet(trace.opcodes, k) + DictGet(tree.call_types, k)]]

\* OpcodeFeatures.to_vector
OpcodeFeatures_to_vector(f) ==
    << Rat(f.total_calls, 1), Rat(f.call_depth, 1), Rat(f.delegatecall_count, 1),
       Rat(f.staticcall_count, 1), Rat(f.create_count, 1), Rat(f.create2_count, 1),
       Rat(f.selfdestruct_count, 1), Rat(f.call_count, 1), Rat(f.internal_calls, 1),
       Rat(f.external_calls, 1), Rat(f.unique_call_types, 1),
       Rat(f.call_value_transfers, 1), f.gas_forwarded_ratio, Rat(f.revert_count, 1) >>

----------------------------------------------------------------------------
(* features/extractors/bytecode.py *)

\* a hex text read as bytecode is carried by what the extractor reads off
\* it: its length, whether it is exactly "0x", and a body holding whether
\* bytes.fromhex accepts it, its sha256 prefix, which of the two-digit
\* patterns and proxy slots occur in it, whether it starts with the clone
\* prefix, how many distinct opcodes the scan counts and its 8-digit chunks
CodeBody(hex_ok, sha, patterns, proxy_slots, clone_prefix, unique_opcodes, chunks) ==
    [hex_ok |-> hex_ok, sha |-> sha, patterns |-> patterns,
     proxy_slots |-> proxy_slots, clone_prefix |-> clone_prefix,
     unique_opcodes |-> unique_opcodes, chunks |-> chunks]

Text(len, is_0x, body) == [len |-> len, is_0x |-> is_0x, body |-> body]

\* the input text of a transaction, read as bytecode
AsBytecode(input_data) ==
    Text(input_data.len, input_data.len = 2 /\ input_data.prefix = Hex("0x"),
         input_data.code)

KNOWN_EXPLOIT_BYTECODE_HASHES ==
    << <<"euler_attacker", "0x1234567890abcdef">>,
       <<"curve_attacker", "0xabcdef1234567890">>,
       <<"beanstalk_attacker", "0xfedcba0987654321">> >>

PROXY_PATTERNS == <<"eip1967", "eip1822", "transparent">>

\* `not bytecode or bytecode == "0x"`
NoBytecode(bytecode) == bytecode.len = 0 \/ bytecode.is_0x

\* _hash_bytecode raises ValueError on text bytes.fromhex rejects
HashRaises(bytecode) == ~bytecode.body.hex_ok

hash_bytecode(bytecode) == bytecode.body.sha

\* _detect_proxy
detect_proxy(bytecode) ==
    LET hits == {i \in DOMAIN PROXY_PATTERNS :
                    PROXY_PATTERNS[i] \in bytecode.body.proxy_slots}
    IN IF "f4" \in bytecode.body.patterns /\ bytecode.len < 200
       THEN <<TRUE, "minimal_proxy">>
       ELSE IF hits # {}
       THEN <<TRUE, PROXY_PATTERNS[CHOOSE i \in hits : \A j \in hits : i <= j]>>
       ELSE IF bytecode.body.clone_prefix THEN <<TRUE, "eip1167_clone">>
       ELSE <<FALSE, "None">>

\* _has_opcode
has_opcode(bytecode, opcode) == opcode \in bytecode.body.patterns

\* _get_bytecode_chunks: none when fewer than 8 digits follow the "0x"
get_bytecode_chunks(bytecode) ==
    IF bytecode.len - 2 < 8 THEN {} ELSE bytecode.body.chunks

\* calculate_jaccard_similarity
calculate_jaccard_similarity(bytecode1, bytecode2) ==
    LET chunks1 == get_bytecode_chunks(bytecode1)
        chunks2 == get_bytecode_chunks(bytecode2)
    IN IF bytecode1.len = 0 \/ bytecode2.len = 0 THEN Zero
       ELSE IF chunks1 = {} \/ chunks2 = {} THEN Zero
       ELSE Rat(Cardinality(chunks1 \cap chunks2), Cardinality(chunks1 \cup chunks2))

\* _check_exploit_match: the first hash that matches, then the first
\* registered bytecode more than 0.9 similar; exploit_bytecodes is the
\* registry in insertion order, a sequence of <<id, bytecode>>
check_exploit_match(exploit_bytecodes, bytecode) ==
    LET by_hash == {i \in DOMAIN KNOWN_EXPLOIT_BYTECODE_HASHES :
                       hash_bytecode(bytecode) = KNOWN_EXPLOIT_BYTECODE_HASHES[i][2]}
        by_sim == {i \in DOMAIN exploit_bytecodes :
                      RatAbove(calculate_jaccard_similarity(bytecode, exploit_bytecodes[i][2]), 9)}
        First(S) == CHOOSE i \in S : \A j \in S : i <= j
    IN IF by_hash # {} THEN <<TRUE, KNOWN_EXPLOIT_BYTECODE_HASHES[First(by_hash)][1]>>
       ELSE IF by_sim # {} THEN <<TRUE, exploit_bytecodes[First(by_sim)][1]>>
       ELSE <<FALSE, "None">>

RECURSIVE MaxSimilarity(_, _)
MaxSimilarity(exploit_bytecodes, bytecode) ==
    IF exploit_bytecodes = <<>> THEN Zero
    ELSE LET sim == calculate_jaccard_similarity(bytecode, Head(exploit_bytecodes)[2])
             rest == MaxSimilarity(Tail(exploit_bytecodes), bytecode)
         IN IF sim[1] * rest[2] > rest[1] * sim[2] THEN sim ELSE rest

\* _calculate_max_jaccard
calculate_max_jaccard(exploit_bytecodes, bytecode) ==
    MaxSimilarity(exploit_bytecodes, bytecode)

count_unique_opcodes(bytecode) == bytecode.body.unique_opcodes

\* the fields extract and extract_from_bytecode compute alike
BytecodeFields(exploit_bytecodes, bytecode, age_blocks) ==
    LET proxy == detect_proxy(bytecode)
        match_result == check_exploit_match(exploit_bytecodes, bytecode)
    IN [bytecode_length |-> bytecode.len \div 2,
        bytecode_hash |-> hash_bytecode(bytecode),
        is_contract |-> TRUE,
        is_proxy |-> proxy[1],
        proxy_type |-> proxy[2],
        contract_age_blocks |-> age_blocks,
        is_verified |-> FALSE,
        matches_known_exploit |-> match_result[1],
        matched_exploit_id |-> match_result[2],
        jaccard_similarity |-> calculate_max_jaccard(exploit_bytecodes, bytecode),
        has_selfdestruct |-> has_opcode(bytecode, "ff"),
        has_delegatecall |-> has_opcode(bytecode, "f4"),
        has_create2 |-> has_opcode(bytecode, "f5"),
        unique_opcodes |-> count_unique_opcodes(bytecode)]

\* BytecodeExtractor.extract_from_bytecode raises when the hash does
ExtractFromBytecodeRaises(bytecode) == ~NoBytecode(bytecode) /\ HashRaises(bytecode)

\* BytecodeExtractor.extract_from_bytecode(bytecode)
extract_from_bytecode(exploit_bytecodes, bytecode) ==
    IF NoBytecode(bytecode) THEN EmptyBytecode
    ELSE BytecodeFields(exploit_bytecodes, bytecode, 0)

\* the chain handle: get_code of the latest block per address (or a
\* failing call), the latest block number, and per address the blocks at
\* which get_code returns code (or a failing historical call)
Chain(get_code_fails, code, block_number, code_blocks, history_fails) ==
    [get_code_fails |-> get_code_fails, code |-> code,
     block_number |-> block_number, code_blocks |-> code_blocks,
     history_fails |-> history_fails]

Text0x == Text(2, TRUE, CodeBody(TRUE, "", {}, {}, FALSE, 0, {}))

\* _get_bytecode: the cached text, else the chain's, else "0x" on failure
get_bytecode(bytecode_cache, address, w3) ==
    IF address \in DOMAIN bytecode_cache THEN bytecode_cache[address]
    ELSE IF w3.get_code_fails THEN Text0x
    ELSE w3.code[address]

\* _get_bytecode: the cache it leaves
CacheAfterGetBytecode(bytecode_cache, address, w3) ==
    IF address \in DOMAIN bytecode_cache \/ w3.get_code_fails THEN bytecode_cache
    ELSE (address :> w3.code[address]) @@ bytecode_cache

\* the loop of _get_creation_block
RECURSIVE CreationSearch(_, _, _)
CreationSearch(low, high, blocks) ==
    IF low < high
    THEN LET mid == (low + high) \div 2
         IN IF mid \in blocks THEN CreationSearch(low, mid, blocks)
            ELSE CreationSearch(mid + 1, high, blocks)
    ELSE low

\* _get_creation_block: -1 stands for None
get_creation_block(address, w3) ==
    IF w3.history_fails THEN -1
    ELSE LET low == CreationSearch(0, w3.block_number, w3.code_blocks[address])
         IN IF low < w3.block_number THEN low ELSE -1

\* BytecodeExtractor.extract(address, w3, current_block); current_block
\* -1 stands for None
BytecodeExtractor_extract(exploit_bytecodes, bytecode_cache, address, w3, current_block) ==
    LET bytecode == get_bytecode(bytecode_cache, address, w3)
        current == IF current_block = -1 THEN w3.block_number ELSE current_block
        creation_block == get_creation_block(address, w3)
        \* `if creation_block`: None and block 0 are both falsy
        age_blocks == IF creation_block > 0 THEN current - creation_block ELSE 0
    IN IF Falsy(address) THEN EmptyBytecode
       ELSE IF NoBytecode(bytecode) THEN EmptyBytecode
       ELSE BytecodeFields(exploit_bytecodes, bytecode, age_blocks)

BytecodeExtractRaises(bytecode_cache, address, w3) ==
    /\ ~Falsy(address)
    /\ ExtractFromBytecodeRaises(get_bytecode(bytecode_cache, address, w3))

BytecodeFeatures_to_vector_Swapped(f) ==
    LET Flag(b) == IF b THEN Rat(1, 1) ELSE Zero
    IN << Rat(f.bytecode_length, 1), Flag(f.is_contract), Flag(f.is_proxy),
          Rat(f.contract_age_blocks, 1), Flag(f.is_verified),
          Flag(f.matches_known_exploit), f.jaccard_similarity,
          Flag(f.has_delegatecall), Flag(f.has_selfdestruct), Flag(f.has_create2),
          Rat(f.unique_opcodes, 1) >>

\* BytecodeFeatures.to_vector
BytecodeFeatures_to_vector(f) ==
    LET Flag(b) == IF b THEN Rat(1, 1) ELSE Zero
    IN << Rat(f.bytecode_length, 1), Flag(f.is_contract), Flag(f.is_proxy),
          Rat(f.contract_age_blocks, 1), Flag(f.is_verified),
          Flag(f.matches_known_exploit), f.jaccard_similarity,
          Flag(f.has_selfdestruct), Flag(f.has_delegatecall), Flag(f.has_create2),
          Rat(f.unique_opcodes, 1) >>

----------------------------------------------------------------------------
(* features/aggregator.py *)

TransactionTrace(tx_hash, block_number, to_address, value, gas_used, input_data, status, logs, call_trace, storage_changes, opcodes, contracts_called, created_contracts) ==
    [tx_hash |-> tx_hash, block_number |-> block_number,
     from_address |-> Hex("0x000000000000000000000000000000000000f00d"),
     to_address |-> to_address, value |-> value, gas_used |-> gas_used,
     input_data |-> input_data, status |-> status, logs |-> logs,
     call_trace |-> call_trace, storage_changes |-> storage_changes,
     opcodes |-> opcodes, contracts_called |-> contracts_called,
     created_contracts |-> created_contracts]

\* FeatureAggregator(): the state its extractors hold
FeatureAggregator(exploit_bytecodes, bytecode_cache) ==
    [exploit_bytecodes |-> exploit_bytecodes, bytecode_cache |-> bytecode_cache]

DefaultFeatureAggregator == FeatureAggregator(<<>>, <<>>)

NoChain == [none |-> TRUE]

\* the branch of extract_from_trace that reads the chain
ReadsChain(trace, w3) == trace.to_address # None /\ w3 # NoChain /\ ~Falsy(trace.to_address)

\* the exceptions that leave extract_from_trace
ExtractFromTraceRaises(agg, trace, w3) ==
    \/ FlashLoanWalkRaises(trace)
    \/ trace.to_address = None /\ ExtractFromBytecodeRaises(AsBytecode(trace.input_data))
    \/ ReadsChain(trace, w3) /\ BytecodeExtractRaises(agg.bytecode_cache, trace.to_address, w3)

\* FeatureAggregator.extract_from_trace(trace, w3)
extract_from_trace(agg, trace, w3, seed) ==
    AggregatedFeatures(
        FlashLoanExtractor_extract(trace, seed),
        StateVarianceExtractor_extract(trace),
        IF trace.to_address = None
        THEN extract_from_bytecode(agg.exploit_bytecodes, AsBytecode(trace.input_data))
        ELSE IF ReadsChain(trace, w3)
        THEN BytecodeExtractor_extract(agg.exploit_bytecodes, agg.bytecode_cache,
                                       trace.to_address, w3, trace.block_number)
        ELSE EmptyBytecode,
        OpcodeExtractor_extract(trace),
        [tx_hash |-> trace.tx_hash, block_number |-> trace.block_number,
         from |-> trace.from_address, to |-> trace.to_address,
         value |-> trace.value, gas_used |-> trace.gas_used,
         status |-> trace.status,
         contracts_called |-> Len(trace.contracts_called),
         created_contracts |-> Len(trace.created_contracts)])

\* the aggregator after extract_from_trace: the bytecode cache it filled
AggregatorAfterTrace(agg, trace, w3) ==
    IF ReadsChain(trace, w3)
    THEN [agg EXCEPT !.bytecode_cache =
             CacheAfterGetBytecode(agg.bytecode_cache, trace.to_address, w3)]
    ELSE agg

ExtractFromPendingRaises(tx) ==
    is_contract_creation(tx) /\ ExtractFromBytecodeRaises(AsBytecode(tx.input_data))

\* FeatureAggregator.extract_from_pending(tx)
extract_from_pending(agg, tx) ==
    AggregatedFeatures(
        extract_from_input(tx.input_data, tx.to_address),
        EmptyStateVariance,
        IF is_contract_creation(tx)
        THEN extract_from_bytecode(agg.exploit_bytecodes, AsBytecode(tx.input_data))
        ELSE EmptyBytecode,
        [EmptyOpcode EXCEPT
            !.create_count = IF is_contract_creation(tx) THEN 1 ELSE 0,
            !.call_count = IF is_contract_interaction(tx) THEN 1 ELSE 0,
            !.external_calls = IF is_contract_interaction(tx) THEN 1 ELSE 0,
            !.unique_call_types = 1,
            !.call_value_transfers = IF tx.value > 0 THEN 1 ELSE 0],
        [tx_hash |-> tx.hash, from |-> tx.from_address, to |-> tx.to_address,
         value |-> tx.value, gas |-> tx.gas,
         is_contract_interaction |-> is_contract_interaction(tx),
         is_contract_creation |-> is_contract_creation(tx),
         selector |-> tx_selector(tx)])

\* the spacing of float32 values around n: the least power of two p with
\* n < 2^24 * p
RECURSIVE Ulp(_)
Ulp(n) == IF n < 16777216 THEN 1 ELSE 2 * Ulp(n \div 2)

\* np.float32 of a whole number: exact up to 2^24, beyond that the nearest
\* multiple of the spacing, ties to the even multiple; a quotient that is
\* not whole is carried as the quotient
Float32(x) ==
    IF x[2] # 1 \/ Abs(x[1]) <= 16777216 THEN x
    ELSE LET n == Abs(x[1])
             u == Ulp(n)
             q == n \div u
             r == n % u
             up == 2 * r > u \/ (2 * r = u /\ q % 2 = 1)
             m == (IF up THEN q + 1 ELSE q) * u
         IN Rat(IF x[1] < 0 THEN -m ELSE m, 1)

\* AggregatedFeatures.to_vector
to_vector(features) ==
    LET combined == FlashLoanFeatures_to_vector(features.flash_loan)
                    \o StateVarianceFeatures_to_vector(features.state_variance)
                    \o BytecodeFeatures_to_vector(features.bytecode)
                    \o OpcodeFeatures_to_vector(features.opcode)
    IN [i \in DOMAIN combined |-> Float32(combined[i])]

\* AggregatedFeatures.feature_names
feature_names ==
    << "fl_has_flash_loan", "fl_count", "fl_provider_count", "fl_total_borrowed",
       "fl_has_callback", "fl_callback_count", "fl_nested", "fl_repayment",
       "sv_storage_changes", "sv_contracts_modified", "sv_slots_modified",
       "sv_balance_changes", "sv_large_changes", "sv_max_delta", "sv_avg_delta",
       "sv_variance_ratio", "sv_zero_to_nonzero", "sv_nonzero_to_zero",
       "bc_length", "bc_is_contract", "bc_is_proxy", "bc_age_blocks",
       "bc_is_verified", "bc_matches_exploit", "bc_jaccard", "bc_has_selfdestruct",
       "bc_has_delegatecall", "bc_has_create2", "bc_unique_opcodes",
       "op_total_calls", "op_call_depth", "op_delegatecall", "op_staticcall",
       "op_create", "op_create2", "op_selfdestruct", "op_call",
       "op_internal_calls", "op_external_calls", "op_unique_types",
       "op_value_transfers", "op_gas_ratio", "op_revert_count" >>

----------------------------------------------------------------------------
(* models/isolation_forest.py: IsolationForestDetector *)

\* a loaded artifact: the threshold, the width the scaler was fitted on,
\* and the fitted forest. The forest is data of the artifact file, not
\* source; it is carried by a decision function that falls by `slope` for
\* every non-zero entry of the vector, starting from `base`
Detector(threshold, n_features, base, slope) ==
    [threshold |-> threshold, n_features |-> n_features, base |-> base, slope |-> slope]

\* model.decision_function(scaler.transform(X))[0]
decision_function(detector, X) ==
    detector.base - detector.slope * Cardinality({i \in DOMAIN X : X[i][1] # 0})

\* _normalize_score
normalize_score(raw_score) == Max(0, Min(ONE, ONE \div 2 - raw_score \div 2))

\* _calculate_confidence
calculate_confidence(detector, anomaly_score) ==
    Min(ONE \div 2 + Abs(anomaly_score - detector.threshold), ONE)

\* scaler.transform raises ValueError on a vector of another width
PredictRaises(detector, features) == Len(to_vector(features)) # detector.n_features

\* IsolationForestDetector.predict(features)
predict(detector, features) ==
    LET anomaly_score == normalize_score(decision_function(detector, to_vector(features)))
    IN [anomaly_score |-> anomaly_score,
        is_anomaly |-> anomaly_score >= detector.threshold,
        confidence |-> calculate_confidence(detector, anomaly_score),
        threshold |-> detector.threshold]

----------------------------------------------------------------------------
(* inference/signal.py: RiskSignal and SignalEngine *)

RiskLevels == <<"safe", "low", "medium", "high", "critical">>

\* the dataclass fields without a default
RiskSignalRequired ==
    {"tx_hash", "timestamp", "risk_level", "risk_score", "confidence", "ml_score",
     "ml_confidence", "heuristic_result", "heuristic_confidence", "risk_indicators",
     "protocol", "operation", "raw_risk_score", "risk_adjustment", "has_flash_loan",
     "flash_loan_amount", "unique_contracts", "transfer_count", "max_value_delta",
     "call_depth", "recommended_action", "explanation", "latency_ms"}

\* RiskSignal(**kwargs) raises TypeError when a required field is missing
RiskSignalRaises(kwargs) == ~(RiskSignalRequired \subseteq DOMAIN kwargs)

\* RiskSignal(**kwargs)
RiskSignal(kwargs) == [model_version |-> "v2.1"] @@ kwargs

\* round(x, 4) of a fixed-point value
Round4(x) == RoundDiv(x, 100) * 100

\* round(x, 2) of an amount in ether
Round2(r) == Rat(RoundDiv(100 * r[1], r[2]), 100)

\* RiskSignal.to_dict
to_dict(signal) ==
    [tx_hash |-> signal.tx_hash,
     timestamp |-> signal.timestamp,
     risk_level |-> signal.risk_level,
     risk_score |-> Round4(signal.risk_score),
     raw_risk_score |-> Round4(signal.raw_risk_score),
     confidence |-> Round4(signal.confidence),
     ml |-> [score |-> Round4(signal.ml_score), confidence |-> Round4(signal.ml_confidence)],
     heuristic |-> [result |-> signal.heuristic_result,
                    confidence |-> Round4(signal.heuristic_confidence)],
     \* risk_adjustment is a whole number of hundredths and latency_ms a
     \* whole number of milliseconds, which round(x, 4) and round(x, 2) keep
     protocol |-> [name |-> signal.protocol, operation |-> signal.operation,
                   risk_adjustment |-> signal.risk_adjustment],
     risk_indicators |-> signal.risk_indicators,
     features |-> [has_flash_loan |-> signal.has_flash_loan,
                   flash_loan_amount_eth |-> Round2(signal.flash_loan_amount),
                   unique_contracts |-> signal.unique_contracts,
                   transfer_count |-> signal.transfer_count,
                   max_value_delta_eth |-> Round2(signal.max_value_delta),
                   call_depth |-> signal.call_depth],
     recommended_action |-> signal.recommended_action,
     explanation |-> signal.explanation,
     latency_ms |-> signal.latency_ms,
     model_version |-> signal.model_version]

\* SignalEngine._score_to_level
score_to_level(risk_score) ==
    IF 10 * risk_score >= 7 * ONE THEN "critical"
    ELSE IF 10 * risk_score >= 5 * ONE THEN "high"
    ELSE IF 100 * risk_score >= 35 * ONE THEN "medium"
    ELSE IF 10 * risk_score >= 2 * ONE THEN "low"
    ELSE "safe"

\* _compute_risk with a confidence that decays with the analyses counted
compute_risk_Drifting(heuristic, ml_result) ==
    <<IF heuristic.result = "suspicious" THEN "medium" ELSE "safe",
      Min((Len(heuristic.risk_indicators) * ONE) \div 10, ONE),
      heuristic.confidence \div (1 + stats.total_analyzed)>>

\* SignalEngine._compute_risk: <<risk_level, risk_score, confidence>>;
\* ml_result is NoValue when there is no detector
\* the cascade with a detector anomaly ranked above the heuristic verdict
compute_risk_AnomalyFirst(heuristic, ml_result) ==
    LET heuristic_score == (Len(heuristic.risk_indicators) * ONE) \div 10
        has_ml == ml_result # NoValue
        risk_score == IF has_ml
                      THEN (4 * heuristic_score + 6 * ml_result.anomaly_score) \div 10
                      ELSE heuristic_score
        confidence == IF has_ml
                      THEN (4 * heuristic.confidence + 6 * ml_result.confidence) \div 10
                      ELSE heuristic.confidence
        suspicious == heuristic.result = "suspicious"
        anomaly == has_ml /\ ml_result.is_anomaly
        risk_level ==
            IF anomaly
            THEN (IF 10 * ml_result.confidence > 7 * ONE THEN "medium" ELSE "low")
            ELSE IF suspicious /\ 10 * heuristic.confidence > 9 * ONE THEN "critical"
            ELSE IF suspicious THEN "medium"
            ELSE IF Len(heuristic.risk_indicators) >= 2 THEN "low"
            ELSE "safe"
    IN <<risk_level, Min(risk_score, ONE), Min(confidence, ONE)>>

compute_risk(heuristic, ml_result) ==
    LET heuristic_score == (Len(heuristic.risk_indicators) * ONE) \div 10
        has_ml == ml_result # NoValue
        risk_score == IF has_ml
                      THEN (4 * heuristic_score + 6 * ml_result.anomaly_score) \div 10
                      ELSE heuristic_score
        confidence == IF has_ml
                      THEN (4 * heuristic.confidence + 6 * ml_result.confidence) \div 10
                      ELSE heuristic.confidence
        suspicious == heuristic.result = "suspicious"
        anomaly == has_ml /\ ml_result.is_anomaly
        risk_level ==
            IF suspicious /\ 10 * heuristic.confidence > 9 * ONE THEN "critical"
            ELSE IF suspicious /\ anomaly THEN "high"
            ELSE IF suspicious THEN "medium"
            ELSE IF anomaly
            THEN (IF 10 * ml_result.confidence > 7 * ONE THEN "medium" ELSE "low")
            ELSE IF Len(heuristic.risk_indicators) >= 2 THEN "low"
            ELSE "safe"
    IN <<risk_level, Min(risk_score, ONE), Min(confidence, ONE)>>

\* SignalEngine._get_recommendation
get_recommendation(risk_level) ==
    CASE risk_level = "safe" -> "No action required"
      [] risk_level = "low" -> "Log and monitor"
      [] risk_level = "medium" -> "Alert security team for review"
      [] risk_level = "high" -> "Immediate review required - consider manual pause"
      [] risk_level = "critical" ->
             "URGENT: Likely attack in progress - activate incident response"

\* one clause of an explanation: its wording and the values printed in it
Clause(text, number, names) == [text |-> text, number |-> number, names |-> names]

\* SignalEngine._generate_explanation: the clauses, before ". ".join
generate_explanation(features, heuristic, ml_result, risk_level) ==
    LET fl == features.flash_loan
        sv == features.state_variance
        explanations ==
            (IF fl.has_flash_loan
             THEN <<Clause("Flash loan detected", RoundDiv(fl.total_borrowed, Ether),
                           IF fl.flash_loan_providers = <<>> THEN <<"unknown">>
                           ELSE fl.flash_loan_providers)>>
             ELSE <<>>)
            \o (IF sv.large_value_changes > 3
                THEN <<Clause("Multiple large value movements", sv.large_value_changes, <<>>)>>
                ELSE <<>>)
            \o (IF sv.max_value_delta > 10000 * Ether
                THEN <<Clause("Extreme value movement detected",
                              RoundDiv(sv.max_value_delta, Ether), <<>>)>>
                ELSE <<>>)
            \o (IF features.opcode.call_depth > 5
                THEN <<Clause("Deep call stack", features.opcode.call_depth, <<>>)>>
                ELSE <<>>)
            \o (IF RatioAboveHalf(sv.variance_ratio)
                THEN <<Clause("High state variance detected", 0, <<>>)>> ELSE <<>>)
            \o (IF ml_result # NoValue /\ ml_result.is_anomaly
                THEN <<Clause("ML model flagged as anomaly",
                              RoundDiv(ml_result.anomaly_score, 10000), <<>>)>>
                ELSE <<>>)
    IN IF explanations = <<>>
       THEN IF risk_level = "safe"
            THEN <<Clause("Transaction appears normal with no suspicious patterns", 0, <<>>)>>
            ELSE <<Clause("Minor anomalies detected but within normal parameters", 0, <<>>)>>
       ELSE explanations

\* risk_priority of _emit_alerts
risk_priority(level) == CHOOSE i \in DOMAIN RiskLevels : RiskLevels[i] = level

\* _emit_alerts with a strict comparison of the priorities
emit_alerts_AboveOnly(callbacks, threshold, risk_level, raising) ==
    [invoked |-> IF risk_priority(risk_level) > risk_priority(threshold)
                 THEN callbacks ELSE <<>>,
     escaped |-> FALSE]

\* _emit_alerts without the try/except around the callback
emit_alerts_Unguarded(callbacks, threshold, risk_level, raising) ==
    LET due == risk_priority(risk_level) >= risk_priority(threshold)
        failing == {i \in DOMAIN callbacks : i \in raising}
        first == IF failing = {} THEN Len(callbacks)
                 ELSE CHOOSE i \in failing : \A j \in failing : i <= j
    IN [invoked |-> IF due THEN SubSeq(callbacks, 1, first) ELSE <<>>,
        escaped |-> due /\ failing # {}]

\* SignalEngine._emit_alerts: the sinks invoked, in order, and whether an
\* exception leaves the loop; raising is the set of positions whose sink
\* raises an Exception on this signal
emit_alerts(callbacks, threshold, risk_level, raising) ==
    [invoked |-> IF risk_priority(risk_level) >= risk_priority(threshold)
                 THEN callbacks ELSE <<>>,
     escaped |-> FALSE]


\* the exception that ends the steps analyze and analyze_async share
\* (feature extraction, then the detector), or "none"
PipelineException(detector, seed, trace) ==
    IF FlashLoanWalkRaises(trace) THEN "AttributeError"
    ELSE IF ExtractFromTraceRaises(DefaultFeatureAggregator, trace, NoChain) THEN "ValueError"
    ELSE IF detector # NoValue
            /\ PredictRaises(detector,
                             extract_from_trace(DefaultFeatureAggregator, trace, NoChain, seed))
    THEN "ValueError"
    ELSE "none"

\* the one value of a local variable assigned once
The(S) == CHOOSE x \in S : TRUE

\* the steps analyze and analyze_async share: features, heuristics,
\* detector, _compute_risk
Assess(detector, seed, trace) ==
    The({The({The({[features |-> features, heuristic |-> heuristic, ml_result |-> ml_result,
                    risk_level |-> risk[1], risk_score |-> risk[2], confidence |-> risk[3]] :
                   risk \in {compute_risk(heuristic, ml_result)}}) :
              heuristic \in {filter_with_features(features)},
              ml_result \in {IF detector # NoValue THEN predict(detector, features)
                             ELSE NoValue}}) :
         features \in {extract_from_trace(DefaultFeatureAggregator, trace, NoChain, seed)}})

\* the keyword arguments both methods pass to RiskSignal
CommonKwargs(trace, a, risk_level, risk_score, explanation, timestamp, latency) ==
    [tx_hash |-> trace.tx_hash,
     timestamp |-> timestamp,
     risk_level |-> risk_level,
     risk_score |-> risk_score,
     confidence |-> a.confidence,
     ml_score |-> IF a.ml_result # NoValue THEN a.ml_result.anomaly_score ELSE 0,
     ml_confidence |-> IF a.ml_result # NoValue THEN a.ml_result.confidence ELSE 0,
     heuristic_result |-> a.heuristic.result,
     heuristic_confidence |-> a.heuristic.confidence,
     risk_indicators |-> a.heuristic.risk_indicators,
     has_flash_loan |-> a.features.flash_loan.has_flash_loan,
     flash_loan_amount |-> Rat(a.features.flash_loan.total_borrowed, Ether),
     unique_contracts |-> a.features.state_variance.unique_contracts_modified,
     transfer_count |-> a.features.state_variance.total_storage_changes,
     max_value_delta |-> Rat(a.features.state_variance.max_value_delta, Ether),
     call_depth |-> a.features.opcode.call_depth,
     recommended_action |-> get_recommendation(risk_level),
     explanation |-> explanation,
     latency_ms |-> latency]

\* SignalEngine.analyze: the arguments of its RiskSignal(...)
analyze_kwargs(trace, a, timestamp, latency) ==
    CommonKwargs(trace, a, a.risk_level, a.risk_score,
                 generate_explanation(a.features, a.heuristic, a.ml_result, a.risk_level),
                 timestamp, latency)

\* SignalEngine.analyze_async: the protocol-filter step
apply_protocol_filter(pf, trace, a) ==
    IF pf # NoValue
    THEN LET filter_result == ProtocolFilter_filter(pf, a.features, a.risk_score,
                                                    trace.to_address, trace.input_data)
         IN [risk_score |-> filter_result.adjusted_risk_score,
             protocol_name |-> filter_result.context.protocol,
             operation_name |-> filter_result.context.operation,
             risk_adjustment |-> filter_result.context.risk_adjustment,
             risk_level |-> score_to_level(filter_result.adjusted_risk_score)]
    ELSE [risk_score |-> a.risk_score, protocol_name |-> "unknown",
          operation_name |-> "unknown", risk_adjustment |-> 0,
          risk_level |-> a.risk_level]

\* SignalEngine.analyze_async: the arguments of its RiskSignal(...)
analyze_async_kwargs(trace, a, f, timestamp, latency) ==
    LET clauses == generate_explanation(a.features, a.heuristic, a.ml_result, f.risk_level)
        explanation == IF f.protocol_name # "unknown"
                       THEN <<Clause("Protocol", 0, <<f.protocol_name, f.operation_name>>)>>
                            \o clauses
                       ELSE clauses
    IN [protocol |-> f.protocol_name, operation |-> f.operation_name,
        raw_risk_score |-> a.risk_score, risk_adjustment |-> f.risk_adjustment]
       @@ CommonKwargs(trace, a, f.risk_level, f.risk_score, explanation, timestamp, latency)

\* the counter updates with the latency assigned instead of added
UpdateStats_Overwrite(s, risk_level, latency) ==
    [s EXCEPT !.total_analyzed = @ + 1,
              ![risk_level] = @ + 1,
              !.total_latency_ms = latency]

\* the counter updates without the per-level one
UpdateStats_TotalOnly(s, risk_level, latency) ==
    [s EXCEPT !.total_analyzed = @ + 1,
              !.total_latency_ms = @ + latency]

\* the counter updates after the signal is built
UpdateStats(s, risk_level, latency) ==
    [s EXCEPT !.total_analyzed = @ + 1,
              ![risk_level] = @ + 1,
              !.total_latency_ms = @ + latency]

\* what a call that raised leaves behind
Raised(op, trace, exception) ==
    [op |-> op, trace |-> trace.tx_hash, outcome |-> "raised", exception |-> exception,
     signal |-> NoValue, invoked |-> <<>>, raising |-> {}]

\* what a call that returned a signal leaves behind: the signal, the sinks
\* invoked with it in order (each with the counters it could read), and
\* the positions whose sink raised
Returned(op, trace, signal, emitted, raising, seen) ==
    [op |-> op, trace |-> trace.tx_hash, outcome |-> "returned", exception |-> "none",
     signal |-> signal,
     invoked |-> [i \in DOMAIN emitted.invoked |->
                     [sink |-> emitted.invoked[i], received |-> signal.tx_hash,
                      level |-> signal.risk_level, seen |-> seen]],
     raising |-> raising \cap DOMAIN emitted.invoked]

\* build the signal, update the counters, emit: the tail of both methods
Conclude(op, trace, kwargs, counted, latency, raising) ==
    IF RiskSignalRaises(kwargs)
    THEN /\ call' = Raised(op, trace, "TypeError")
         /\ stats' = counted
    ELSE \E signal \in {RiskSignal(kwargs)} :
         \E updated \in {UpdateStats(counted, signal.risk_level, latency)},
            emitted \in {emit_alerts(alert_callbacks, min_alert_level, signal.risk_level,
                                     raising)} :
            /\ stats' = updated
            /\ call' = IF emitted.escaped
                       THEN [Raised(op, trace, "Exception") EXCEPT
                                !.invoked = Returned(op, trace, signal, emitted, raising, updated).invoked,
                                !.raising = raising \cap DOMAIN emitted.invoked]
                       ELSE Returned(op, trace, signal, emitted, raising, updated)

----------------------------------------------------------------------------
(* inference/engine.py: InferenceResult and InferenceEngine *)

InferenceResult(tx_hash, is_suspicious, anomaly_score, confidence, heuristic_result, ml_result, features, latency_ms, risk_level, risk_indicators, recommendation) ==
    [tx_hash |-> tx_hash, is_suspicious |-> is_suspicious, anomaly_score |-> anomaly_score,
     confidence |-> confidence, heuristic_result |-> heuristic_result,
     ml_result |-> ml_result, features |-> features, latency_ms |-> latency_ms,
     risk_level |-> risk_level, risk_indicators |-> risk_indicators,
     recommendation |-> recommendation]

\* a timeout that lifts the level to high
make_decision_TimeoutHigh(heuristic, ml_result, simulation_timeout) ==
    LET has_ml == ml_result # NoValue
        suspicious == heuristic.result = "suspicious"
    IN IF suspicious /\ 10 * heuristic.confidence > 9 * ONE
       THEN <<TRUE, "critical", "block">>
       ELSE IF has_ml /\ ml_result.is_anomaly /\ 10 * ml_result.confidence > 8 * ONE
       THEN <<TRUE, "high", "block">>
       ELSE IF suspicious
       THEN (IF has_ml /\ 10 * ml_result.anomaly_score > 5 * ONE
             THEN <<TRUE, "high", "block">>
             ELSE <<TRUE, "medium", "flag">>)
       ELSE IF simulation_timeout
               /\ \/ has_ml /\ 10 * ml_result.anomaly_score > 3 * ONE
                  \/ Len(heuristic.risk_indicators) >= 1
       THEN <<TRUE, "high", "block">>
       ELSE IF has_ml /\ ml_result.is_anomaly
       THEN (IF heuristic.result = "unknown"
             THEN <<TRUE, "medium", "flag">>
             ELSE <<FALSE, "low", "monitor">>)
       ELSE IF Len(heuristic.risk_indicators) >= 2
       THEN <<FALSE, "low", "monitor">>
       ELSE <<FALSE, "low", "allow">>

\* InferenceEngine._make_decision: <<is_suspicious, risk_level, recommendation>>
make_decision(heuristic, ml_result, simulation_timeout) ==
    LET has_ml == ml_result # NoValue
        suspicious == heuristic.result = "suspicious"
    IN IF suspicious /\ 10 * heuristic.confidence > 9 * ONE
       THEN <<TRUE, "critical", "block">>
       ELSE IF has_ml /\ ml_result.is_anomaly /\ 10 * ml_result.confidence > 8 * ONE
       THEN <<TRUE, "high", "block">>
       ELSE IF suspicious
       THEN (IF has_ml /\ 10 * ml_result.anomaly_score > 5 * ONE
             THEN <<TRUE, "high", "block">>
             ELSE <<TRUE, "medium", "flag">>)
       ELSE IF simulation_timeout
               /\ \/ has_ml /\ 10 * ml_result.anomaly_score > 3 * ONE
                  \/ Len(heuristic.risk_indicators) >= 1
       THEN <<TRUE, "medium", "flag">>
       ELSE IF has_ml /\ ml_result.is_anomaly
       THEN (IF heuristic.result = "unknown"
             THEN <<TRUE, "medium", "flag">>
             ELSE <<FALSE, "low", "monitor">>)
       ELSE IF Len(heuristic.risk_indicators) >= 2
       THEN <<FALSE, "low", "monitor">>
       ELSE <<FALSE, "low", "allow">>

\* InferenceEngine._calculate_overall_confidence
calculate_overall_confidence(heuristic, ml_result) ==
    IF ml_result = NoValue
    THEN heuristic.confidence
    ELSE (4 * heuristic.confidence + 6 * ml_result.confidence) \div 10

\* the order in which list(set) yields indicator names: fixed for one
\* interpreter process by its string-hash seed, here the rank up or down
IndicatorRank ==
    ("suspicious_selector" :> 1) @@ ("contract_creation" :> 2) @@
    ("large_value_transfer" :> 3) @@ ("high_gas_limit" :> 4) @@
    ("flash_loan_detected" :> 5) @@ ("nested_flash_loans" :> 6) @@
    ("large_flash_loan" :> 7) @@ ("flash_loan_with_complex_activity" :> 8) @@
    ("high_state_variance" :> 9) @@ ("multiple_large_changes" :> 10) @@
    ("extreme_value_movement" :> 11) @@ ("matches_known_exploit" :> 12) @@
    ("high_bytecode_similarity" :> 13) @@ ("new_contract" :> 14) @@
    ("selfdestruct_opcode" :> 15) @@ ("uses_delegatecall" :> 16) @@
    ("uses_create2" :> 17) @@ ("deep_call_stack" :> 18) @@ ("high_call_count" :> 19)

RECURSIVE ListOfIndicatorSet(_, _)
ListOfIndicatorSet(S, seed) ==
    IF S = {} THEN <<>>
    ELSE LET x == CHOOSE y \in S :
                    \A z \in S : IF seed = 0
                                 THEN IndicatorRank[y] <= IndicatorRank[z]
                                 ELSE IndicatorRank[y] >= IndicatorRank[z]
         IN <<x>> \o ListOfIndicatorSet(S \ {x}, seed)

\* what the awaited simulation comes to: no trace (no connection, or the
\* replay failed inside _simulate_transaction), a replayed trace, the
\* timeout of wait_for, or another exception
NoTrace == [kind |-> "none"]
Replayed(trace) == [kind |-> "trace", trace |-> trace]
SimulationTimeout == [kind |-> "timeout"]
SimulationFailure == [kind |-> "error"]

\* the counters one call adds to _stats
Delta(total_analyzed, safe_filtered, suspicious_detected, ml_analyzed, total_latency_ms) ==
    [total_analyzed |-> total_analyzed, safe_filtered |-> safe_filtered,
     suspicious_detected |-> suspicious_detected, ml_analyzed |-> ml_analyzed,
     total_latency_ms |-> total_latency_ms]

AddDelta(s, delta) == [k \in DOMAIN s |-> s[k] + delta[k]]

\* what one run of a method leaves: the exception that ended it or its
\* result, the steps of the pipeline it ran, and what it added to _stats
Ran(exception, result, stages, delta) ==
    [exception |-> exception, result |-> result, stages |-> stages, delta |-> delta]

\* InferenceEngine.analyze past the early return and extract_from_pending:
\* the simulation, the second heuristic pass, the detector, the decision
analyze_with_features(detector, simulate, seed, tx, heuristic_result, pending, sim, latency) ==
    LET replayed == simulate /\ sim.kind = "trace"
        extract_raises == replayed /\ ExtractFromTraceRaises(DefaultFeatureAggregator,
                                                             sim.trace, NoChain)
        simulation_timeout == simulate /\ sim.kind = "timeout"
        simulation_error == simulate /\ (sim.kind = "error" \/ extract_raises)
        stages == {"heuristic_filter", "extract_from_pending", "filter_with_features"}
                  \cup (IF simulate THEN {"simulation"} ELSE {})
                  \cup (IF replayed THEN {"extract_from_trace"} ELSE {})
                  \cup (IF detector # NoValue THEN {"detector"} ELSE {})
    IN The({The({
        IF detector # NoValue /\ PredictRaises(detector, features)
        THEN Ran("ValueError", NoValue, stages, Delta(1, 0, 0, 1, 0))
        ELSE The({The({
            Ran("none",
                InferenceResult(
                    tx.hash, decision[1],
                    IF ml_result # NoValue THEN ml_result.anomaly_score ELSE 0,
                    calculate_overall_confidence(heuristic_with_features, ml_result),
                    heuristic_with_features, ml_result, features, latency, decision[2],
                    ListOfIndicatorSet(Range(heuristic_result.risk_indicators
                                             \o heuristic_with_features.risk_indicators), seed)
                       \o (IF simulation_timeout THEN <<"simulation_timeout">> ELSE <<>>)
                       \o (IF simulation_error THEN <<"simulation_error">> ELSE <<>>),
                    decision[3]),
                stages,
                Delta(1, 0, IF decision[1] THEN 1 ELSE 0,
                      IF detector # NoValue THEN 1 ELSE 0, latency)) :
            decision \in {make_decision(heuristic_with_features, ml_result,
                                        simulation_timeout)}}) :
            ml_result \in {IF detector # NoValue THEN predict(detector, features)
                           ELSE NoValue}}) :
        heuristic_with_features \in {filter_with_features(features)}}) :
        features \in {IF replayed /\ ~extract_raises
                      THEN extract_from_trace(DefaultFeatureAggregator, sim.trace, NoChain, seed)
                      ELSE pending}})

\* InferenceEngine.analyze(tx)
InferenceEngine_analyze(hf, detector, simulate, seed, tx, sim, latency) ==
    The({
        IF heuristic_result.result = "safe" /\ ~heuristic_result.should_analyze
        THEN Ran("none",
                 InferenceResult(tx.hash, FALSE, 0, heuristic_result.confidence,
                                 heuristic_result, NoValue, NoValue, latency, "low", <<>>,
                                 "allow"),
                 {"heuristic_filter"}, Delta(1, 1, 0, 0, 0))
        ELSE IF ExtractFromPendingRaises(tx)
        THEN Ran("ValueError", NoValue, {"heuristic_filter", "extract_from_pending"},
                 Delta(1, 0, 0, 0, 0))
        ELSE The({analyze_with_features(detector, simulate, seed, tx, heuristic_result,
                                        pending, sim, latency) :
                  pending \in {extract_from_pending(DefaultFeatureAggregator, tx)}}) :
        heuristic_result \in {HeuristicFilter_filter(hf, tx)}})

\* InferenceEngine.analyze_trace(trace)
InferenceEngine_analyze_trace(detector, seed, trace, latency) ==
    LET stages == {"extract_from_trace", "filter_with_features"}
                  \cup (IF detector # NoValue THEN {"detector"} ELSE {})
    IN IF PipelineException(detector, seed, trace) # "none"
       THEN Ran(PipelineException(detector, seed, trace), NoValue, stages, Delta(0, 0, 0, 0, 0))
       ELSE The({The({
                Ran("none",
                    InferenceResult(trace.tx_hash, decision[1],
                                    IF a.ml_result # NoValue THEN a.ml_result.anomaly_score
                                    ELSE 0,
                                    calculate_overall_confidence(a.heuristic, a.ml_result),
                                    a.heuristic, a.ml_result, a.features, latency,
                                    decision[2], a.heuristic.risk_indicators, decision[3]),
                    stages, Delta(0, 0, 0, 0, 0)) :
                decision \in {make_decision(a.heuristic, a.ml_result, FALSE)}}) :
            a \in {Assess(detector, seed, trace)}})

----------------------------------------------------------------------------
(* The pure-function harness: Init draws an input, Apply runs the function *)

EngineIdle ==
    /\ tables = ModuleTables
    /\ database = NoValue
    /\ engine = "none"
    /\ hash_seed = 0
    /\ protocol_filter = NoValue
    /\ ml_detector = NoValue
    /\ enable_simulation = FALSE
    /\ min_alert_level = "medium"
    /\ alert_callbacks = <<>>
    /\ stats = NoValue
    /\ call = NoValue
    /\ observed = NoValue

\* granularity of the scores drawn as inputs: k / ScoreGrid for k = 0..ScoreGrid
ScoreGrid == 4

\* with the two smallest positive scores
Scores == {(ONE * k) \div ScoreGrid : k \in 0..ScoreGrid} \cup {1, 2}

UniswapV2Router == Hex("0x7a250d5630b4cf539739df2c5dacb4c659f2488d")
AaveV2Pool == Hex("0x7d2768de32b0b80b7a3454c06bdac94a69ddc7a9")
UnlistedAddress == Hex("0x00000000000000000000000000000000deadbeef")

\* the body of call data read as bytecode: well-formed hex, no pattern hit
NoCode == CodeBody(TRUE, "0x9f86d081884c7d65", {}, {}, FALSE, 4, {0})

\* a call carrying only a selector and one argument word
CallInput(selector) == Input(74, selector, 0, NoCode)

FlashArbSelector == Hex("0x0f1a5b00")
UnlistedSelector == Hex("0xdeadbeef")

ProbeFeatures(has_fl, gas_used, contracts, delta) ==
    AggregatedFeatures(
        [EmptyFlashLoan EXCEPT !.has_flash_loan = has_fl],
        [EmptyStateVariance EXCEPT !.unique_contracts_modified = contracts,
                                   !.max_value_delta = delta],
        EmptyBytecode, EmptyOpcode, [gas_used |-> gas_used])

PFFilters ==
    {DefaultProtocolFilter,
     add_operation(DefaultProtocolFilter, FlashArbSelector, "flash_loan_arbitrage")}

PFAddresses == {None, UniswapV2Router, Mixed(UniswapV2Router.hex), UnlistedAddress}

PFInputs ==
    {CallInput(s) : s \in {Hex("0x38ed1739"), Mixed("0x38ed1739"), Hex("0xe8e33700"),
                           Hex("0xbaa2abde"), Hex("0xe8eda9df"), Hex("0x69328dec"),
                           Hex("0xa415bcad"), Hex("0x573ade81"), Hex("0x00a718a9"),
                           Hex("0xa694fc3a"), Hex("0x2e1a7d4d"), Hex("0x3d18b912"),
                           Hex("0x15373e3d"), FlashArbSelector, UnlistedSelector}}
    \cup {Input(2, Hex("0x"), 0, NoCode)}

PFArgs ==
    [pf : PFFilters,
     features : {ProbeFeatures(f, g, c, d) :
                    f \in BOOLEAN, g \in {0, 500001, 2000001},
                    c \in {0, 16}, d \in {0, 5001 * Ether, 50001 * Ether}},
     original_risk_score : Scores,
     to_address : PFAddresses,
     input_data : PFInputs]

InitProtocolFilter ==
    /\ EngineIdle
    /\ fn = "ProtocolFilter.filter"
    /\ arg \in PFArgs
    /\ res = NoValue

ApplyProtocolFilter ==
    /\ fn = "ProtocolFilter.filter"
    /\ res = NoValue
    /\ res' = ProtocolFilter_filter(arg.pf, arg.features, arg.original_risk_score,
                                    arg.to_address, arg.input_data)
    /\ UNCHANGED <<engineVars, fn, arg>>

NextProtocolFilter == ApplyProtocolFilter

SpecProtocolFilter == InitProtocolFilter /\ [][NextProtocolFilter]_vars

\* C2: the filter's risk adjustment lies in [-0.5, +0.5] and the adjusted
\* score is clip(original + adjustment * original, 0, 1), hence in [0, 1]
C2_AdjustmentAndScoreBounds ==
    (fn = "ProtocolFilter.filter" /\ res # NoValue) =>
        LET adj == res.context.risk_adjustment
            orig == arg.original_risk_score
            sum == orig + RoundDiv(adj * orig, 100)
            clipped == IF sum < 0 THEN 0 ELSE IF sum > ONE THEN ONE ELSE sum
        IN /\ adj >= -50 /\ adj <= 50
           /\ res.adjusted_risk_score = clipped
           /\ res.adjusted_risk_score >= 0 /\ res.adjusted_risk_score <= ONE

\* a raised score that the clip to 1 cuts back, and a lowered one
C2_Witness ==
    /\ fn = "ProtocolFilter.filter" /\ res # NoValue
    /\ res.context.risk_adjustment > 0
    /\ arg.original_risk_score + RoundDiv(res.context.risk_adjustment * arg.original_risk_score, 100) > ONE
    /\ res.adjusted_risk_score = ONE

----------------------------------------------------------------------------
(* ProtocolFilter: the adjustment rules and the known-protocol discount *)

PFDone == fn = "ProtocolFilter.filter" /\ res # NoValue

\* the rule contributions, in hundredths, from the four facts the rules read
RuleSum(known_protocol, known_operation, operation, within_bounds, has_flash_loan) ==
    (CASE known_protocol /\ known_operation -> -20 + (IF within_bounds THEN -10 ELSE 25)
       [] ~known_protocol /\ ~known_operation -> 0
       [] OTHER -> -5)
    + (IF has_flash_loan
          /\ operation \notin {"flash_loan_arbitrage", "flash_loan_collateral_swap", "liquidate"}
       THEN 35 ELSE 0)
    + (IF known_protocol
          /\ operation \in {"swap", "add_liquidity", "deposit", "stake",
                            "claim_rewards", "governance"}
          /\ within_bounds /\ ~has_flash_loan
       THEN -10 ELSE 0)

\* C11: the risk adjustment is the sum of the applicable rule contributions
\* (-0.20 and -0.10 / +0.25 when both are known, 0 when neither, -0.05 when
\* exactly one; +0.35 for a flash loan outside the flash-loan operations;
\* -0.10 for a known protocol's safe operation within bounds without a flash
\* loan), clamped to [-0.5, +0.5], and within_bounds is what check_bounds says
C11_AdjustmentIsRuleSum ==
    PFDone =>
        LET c == res.context
            sum == RuleSum(c.is_known_protocol, c.is_known_operation, c.operation,
                           c.within_bounds, arg.features.flash_loan.has_flash_loan)
        IN /\ c.risk_adjustment = Max(-50, Min(50, sum))
           /\ c.is_known_protocol = (c.protocol # "unknown")
           /\ c.is_known_operation = (c.operation # "unknown")
           /\ c.within_bounds
                = check_bounds(arg.pf.enable_bounds_check, c.operation, arg.features)[1]

\* a known swap out of bounds that carries a flash loan: -0.20 + 0.25 + 0.35
C11_Witness ==
    /\ PFDone
    /\ res.context.is_known_protocol /\ res.context.operation = "swap"
    /\ ~res.context.within_bounds
    /\ arg.features.flash_loan.has_flash_loan
    /\ res.context.risk_adjustment = 40

\* a flash loan inside a flash-loan operation adds nothing
C11_FlashOperationWitness ==
    /\ PFDone
    /\ res.context.is_known_protocol /\ res.context.operation = "liquidate"
    /\ arg.features.flash_loan.has_flash_loan
    /\ res.context.risk_adjustment = -30

\* the call C12 is about: to-address a known protocol address in any letter
\* case, selector a known operation, within the operation's bounds, no flash loan
KnownCallInBounds ==
    /\ PFDone
    /\ ~Falsy(arg.to_address)
    /\ \E a \in DOMAIN PROTOCOL_ADDRESSES : Lower(a) = Lower(arg.to_address)
    /\ arg.input_data.len >= 10
    /\ Lower(arg.input_data.prefix) \in DOMAIN arg.pf.operation_selectors
    /\ check_bounds(arg.pf.enable_bounds_check,
                    arg.pf.operation_selectors[Lower(arg.input_data.prefix)],
                    arg.features)[1]
    /\ ~arg.features.flash_loan.has_flash_loan

\* C12 as stated: for such a call both flags are true and the adjusted score
\* is strictly lower than the original for every original score in (0, 1],
\* and 0 when the original is 0
C12_KnownCallLowersEveryScore ==
    KnownCallInBounds =>
        /\ res.context.is_known_protocol /\ res.context.is_known_operation
        /\ arg.original_risk_score > 0
              => res.adjusted_risk_score < arg.original_risk_score
        /\ arg.original_risk_score = 0 => res.adjusted_risk_score = 0

\* C12: for such a call both flags are true and the adjusted score is
\* strictly lower than the original for every original score in (0, 1]
\* other than the smallest positive one, and equal to the original when the
\* original is 0 or the smallest positive score
C12_KnownCallLowersScore ==
    KnownCallInBounds =>
        /\ res.context.is_known_protocol /\ res.context.is_known_operation
        /\ arg.original_risk_score > 1
              => res.adjusted_risk_score < arg.original_risk_score
        /\ arg.original_risk_score <= 1
              => res.adjusted_risk_score = arg.original_risk_score

\* a mixed-case router address with a swap selector, score 0.5 lowered
C12_Witness ==
    /\ KnownCallInBounds
    /\ ~arg.to_address.lower
    /\ res.context.protocol = "uniswap_v2" /\ res.context.operation = "swap"
    /\ 2 * arg.original_risk_score = ONE
    /\ res.adjusted_risk_score < arg.original_risk_score

\* the smallest positive score, which the discount leaves as it is
C12_SmallestScoreWitness ==
    /\ KnownCallInBounds
    /\ arg.original_risk_score = 1
    /\ res.context.risk_adjustment < 0
    /\ res.adjusted_risk_score = 1

----------------------------------------------------------------------------
(* HeuristicFilter.filter_with_features over feature records *)

HFFeatures ==
    {AggregatedFeatures(
        [EmptyFlashLoan EXCEPT !.has_flash_loan = fl[1],
                               !.nested_flash_loans = fl[2],
                               !.total_borrowed = fl[3]],
        [EmptyStateVariance EXCEPT !.large_value_changes = sv[1],
                                   !.total_storage_changes = sv[2],
                                   !.max_value_delta = sv[3],
                                   !.variance_ratio = sv[4]],
        [EmptyBytecode EXCEPT !.matches_known_exploit = bc[1],
                              !.jaccard_similarity = bc[2],
                              !.contract_age_blocks = bc[3],
                              !.has_selfdestruct = bc[4]],
        [EmptyOpcode EXCEPT !.delegatecall_count = op[1],
                            !.create2_count = op[2],
                            !.call_depth = op[3],
                            !.total_calls = op[4]],
        [gas_used |-> 0]) :
      fl \in BOOLEAN \X BOOLEAN \X {0, 1000001 * Ether},
      sv \in {0, 4} \X {0, 11} \X {0, 10001 * Ether} \X {Zero, Rat(1, 1)},
      bc \in BOOLEAN \X {Zero, Rat(4, 5)} \X {0, 100} \X BOOLEAN,
      op \in {0, 1} \X {0, 1} \X {0, 11} \X {0, 51}}

\* filters for HeuristicFilter.filter: the default one, and one whose safe
\* selectors were extended by a selector that is also a suspicious one
HFFilters ==
    {DefaultHeuristicFilter,
     add_safe_selector(DefaultHeuristicFilter, Hex("0x5cffe9de"))}

HFTxs ==
    {PendingTransaction("0xb1", to, value, gas, input) :
        to \in {None, Hex("0x7a250d5630b4cf539739df2c5dacb4c659f2488d"),
                Mixed("0x7a250d5630b4cf539739df2c5dacb4c659f2488d"),
                Hex("0x3333333333333333333333333333333333333333")},
        value \in {0, 1, Ether},
        gas \in {21000, 99999, 100000, 1000000, 1000001},
        input \in {Input(0, EmptyStr, 0, NoCode), Input(2, Hex("0x"), 0, NoCode),
                   Input(6, Hex("0xa905"), 0, NoCode),
                   CallInput(Hex("0xa9059cbb")), CallInput(Hex("0x5cffe9de")),
                   CallInput(Hex("0x022c0d9f")), CallInput(UnlistedSelector),
                   Input(400, Hex("0x60806040"), 0, NoCode)}}

InitHeuristic ==
    /\ EngineIdle
    /\ res = NoValue
    /\ \/ fn = "HeuristicFilter.filter_with_features" /\ arg \in HFFeatures
       \/ fn = "HeuristicFilter.filter" /\ arg \in [hf : HFFilters, tx : HFTxs]
       \/ fn = "HeuristicFilter.quick_filter" /\ arg \in [hf : HFFilters, tx : HFTxs]

ApplyHeuristic ==
    /\ fn = "HeuristicFilter.filter_with_features"
    /\ res = NoValue
    /\ res' = filter_with_features(arg)
    /\ UNCHANGED <<engineVars, fn, arg>>

ApplyFilter ==
    /\ fn = "HeuristicFilter.filter"
    /\ res = NoValue
    /\ res' = HeuristicFilter_filter(arg.hf, arg.tx)
    /\ UNCHANGED <<engineVars, fn, arg>>

ApplyQuickFilter ==
    /\ fn = "HeuristicFilter.quick_filter"
    /\ res = NoValue
    /\ res' = [needs_analysis |-> quick_filter(arg.hf, arg.tx)]
    /\ UNCHANGED <<engineVars, fn, arg>>

NextHeuristic == ApplyHeuristic \/ ApplyFilter \/ ApplyQuickFilter

SpecHeuristic == InitHeuristic /\ [][NextHeuristic]_vars

\* C5: when the bytecode record matches a known exploit, the verdict is
\* SUSPICIOUS with confidence exactly 0.95 and the indicators contain
\* matches_known_exploit, whatever the other feature fields are
C5_KnownExploitShortCircuit ==
    (fn = "HeuristicFilter.filter_with_features" /\ res # NoValue
     /\ arg.bytecode.matches_known_exploit) =>
        /\ res.result = "suspicious"
        /\ res.confidence * 100 = 95 * ONE
        /\ \E i \in DOMAIN res.risk_indicators :
              res.risk_indicators[i] = "matches_known_exploit"

\* a known exploit with no other indicator: the count table would say UNKNOWN
C5_Witness ==
    /\ fn = "HeuristicFilter.filter_with_features" /\ res # NoValue
    /\ arg.bytecode.matches_known_exploit
    /\ res.risk_indicators = <<"matches_known_exploit">>
    /\ res.result = "suspicious"

----------------------------------------------------------------------------
(* HeuristicFilter: the verdict tables and the transfer predicates *)

HFDone == fn = "HeuristicFilter.filter_with_features" /\ res # NoValue

\* the tags whose condition holds for a feature record without exploit match
TagsOf(f) ==
    {t \in {"flash_loan_detected", "nested_flash_loans", "large_flash_loan",
            "flash_loan_with_complex_activity", "high_state_variance",
            "multiple_large_changes", "extreme_value_movement",
            "high_bytecode_similarity", "new_contract", "selfdestruct_opcode",
            "uses_delegatecall", "uses_create2", "deep_call_stack",
            "high_call_count"} :
        CASE t = "flash_loan_detected" -> f.flash_loan.has_flash_loan
          [] t = "nested_flash_loans" ->
                f.flash_loan.has_flash_loan /\ f.flash_loan.nested_flash_loans
          [] t = "large_flash_loan" ->
                f.flash_loan.has_flash_loan
                /\ f.flash_loan.total_borrowed > 1000000 * Ether
          [] t = "flash_loan_with_complex_activity" ->
                f.flash_loan.has_flash_loan
                /\ (\/ f.state_variance.large_value_changes > 3
                    \/ f.state_variance.total_storage_changes > 10
                    \/ f.state_variance.max_value_delta > 10000 * Ether)
          [] t = "high_state_variance" ->
                4 * f.state_variance.variance_ratio[1] > f.state_variance.variance_ratio[2]
          [] t = "multiple_large_changes" -> f.state_variance.large_value_changes > 3
          [] t = "extreme_value_movement" ->
                f.state_variance.max_value_delta > 10000 * Ether
          [] t = "high_bytecode_similarity" ->
                10 * f.bytecode.jaccard_similarity[1] > 7 * f.bytecode.jaccard_similarity[2]
          [] t = "new_contract" -> f.bytecode.contract_age_blocks < 100
          [] t = "selfdestruct_opcode" -> f.bytecode.has_selfdestruct
          [] t = "uses_delegatecall" -> f.opcode.delegatecall_count > 0
          [] t = "uses_create2" -> f.opcode.create2_count > 0
          [] t = "deep_call_stack" -> f.opcode.call_depth > 10
          [] t = "high_call_count" -> f.opcode.total_calls > 50}

\* C13: without an exploit match filter_with_features decides by the number
\* n of indicators whose condition holds: n = 0 gives SAFE, 0.80, no further
\* analysis; n in {1, 2} gives UNKNOWN, 0.50; n >= 3 gives SUSPICIOUS with
\* confidence min(0.50 + 0.10 n, 0.95); the returned list has n entries
C13_VerdictByIndicatorCount ==
    (HFDone /\ ~arg.bytecode.matches_known_exploit) =>
        LET n == Cardinality(TagsOf(arg))
        IN /\ Len(res.risk_indicators) = n
           /\ Range(res.risk_indicators) = TagsOf(arg)
           /\ n = 0 => /\ res.result = "safe"
                       /\ 10 * res.confidence = 8 * ONE
                       /\ ~res.should_analyze
           /\ n \in {1, 2} => res.result = "unknown" /\ 2 * res.confidence = ONE
           /\ n >= 3 => /\ res.result = "suspicious"
                        /\ 100 * res.confidence = Min(50 + 10 * n, 95) * ONE

\* three indicators: the first SUSPICIOUS row, confidence 0.80
C13_Witness ==
    /\ HFDone /\ ~arg.bytecode.matches_known_exploit
    /\ Len(res.risk_indicators) = 3
    /\ res.result = "suspicious"
    /\ 10 * res.confidence = 8 * ONE

\* all fourteen indicators: the confidence is capped at 0.95
C13_CappedWitness ==
    /\ HFDone /\ ~arg.bytecode.matches_known_exploit
    /\ Len(res.risk_indicators) = 14
    /\ 100 * res.confidence = 95 * ONE

FilterDone == fn = "HeuristicFilter.filter" /\ res # NoValue

\* the reasons and the indicators whose condition holds for a transaction
ReasonsOf(hf, tx) ==
    {r \in {"low_gas_no_value", "whitelisted_contract", "safe_selector"} :
        CASE r = "low_gas_no_value" -> tx.gas < 100000 /\ tx.value = 0
          [] r = "whitelisted_contract" ->
                tx.to_address # None
                /\ \E a \in WHITELISTED_CONTRACTS : Lower(a) = Lower(tx.to_address)
          [] r = "safe_selector" ->
                tx.input_data.len >= 10 /\ tx.input_data.prefix \in hf.safe_selectors}

IndicatorsOf(hf, tx) ==
    {i \in {"suspicious_selector", "contract_creation", "large_value_transfer",
            "high_gas_limit"} :
        CASE i = "suspicious_selector" ->
                /\ tx.input_data.len >= 10
                /\ tx.input_data.prefix \in hf.suspicious_selectors
                /\ tx.input_data.prefix \notin hf.safe_selectors
          [] i = "contract_creation" -> tx.to_address = None /\ tx.input_data.len > 2
          [] i = "large_value_transfer" -> tx.value >= Ether
          [] i = "high_gas_limit" -> tx.gas > 1000000}

\* C14: for a transaction that is not a simple transfer, filter follows the
\* table on its reasons and indicators: at least 2 reasons and no indicator
\* gives SAFE, 0.90, no analysis; otherwise at least 2 indicators gives
\* SUSPICIOUS, 0.70, analysis; otherwise UNKNOWN, 0.50, analysis; hence a
\* suspicious selector or a gas limit above 1,000,000 leaves should_analyze true
C14_FilterDecisionTable ==
    (FilterDone /\ ~is_simple_transfer(arg.tx)) =>
        LET R == ReasonsOf(arg.hf, arg.tx)
            I == IndicatorsOf(arg.hf, arg.tx)
        IN /\ Range(res.reasons) = R /\ Len(res.reasons) = Cardinality(R)
           /\ IF Cardinality(R) >= 2 /\ I = {}
              THEN /\ res.result = "safe" /\ 10 * res.confidence = 9 * ONE
                   /\ ~res.should_analyze /\ res.risk_indicators = <<>>
              ELSE IF Cardinality(I) >= 2
              THEN /\ res.result = "suspicious" /\ 10 * res.confidence = 7 * ONE
                   /\ res.should_analyze
                   /\ Range(res.risk_indicators) = I
              ELSE /\ res.result = "unknown" /\ 2 * res.confidence = ONE
                   /\ res.should_analyze
                   /\ Range(res.risk_indicators) = I
           /\ ("suspicious_selector" \in I \/ arg.tx.gas > 1000000)
                 => res.should_analyze

\* a flash-loan selector sent to an unlisted contract with a high gas limit
C14_Witness ==
    /\ FilterDone /\ ~is_simple_transfer(arg.tx)
    /\ arg.hf = DefaultHeuristicFilter
    /\ arg.tx.to_address = Hex("0x3333333333333333333333333333333333333333")
    /\ arg.tx.value = 0 /\ arg.tx.gas = 1000001
    /\ arg.tx.input_data.prefix = Hex("0x5cffe9de")
    /\ res.result = "suspicious" /\ res.should_analyze
    /\ res.risk_indicators = <<"suspicious_selector", "high_gas_limit">>

\* a whitelisted contract called with a safe selector: SAFE, 0.90
C14_SafeWitness ==
    /\ FilterDone /\ ~is_simple_transfer(arg.tx)
    /\ res.result = "safe" /\ ~res.should_analyze
    /\ res.reasons = <<"whitelisted_contract", "safe_selector">>

InputEmpty(tx) == tx.input_data.len = 0 \/ tx.input_data = Input(2, Hex("0x"), 0, NoCode)

\* C20: is_simple_transfer holds exactly when to is present and the input is
\* empty, is_contract_interaction exactly when to is present and the input
\* is not, is_contract_creation exactly when to is absent and the input is
\* not; the three exclude one another, and filter's simple-transfer SAFE
\* verdict is given only to transactions with a to-address
C20_TransferPredicates ==
    FilterDone =>
        LET tx == arg.tx
        IN /\ is_simple_transfer(tx) = (tx.to_address # None /\ InputEmpty(tx))
           /\ is_contract_interaction(tx) = (tx.to_address # None /\ ~InputEmpty(tx))
           /\ is_contract_creation(tx) = (tx.to_address = None /\ ~InputEmpty(tx))
           /\ ~(is_simple_transfer(tx) /\ is_contract_interaction(tx))
           /\ ~(is_simple_transfer(tx) /\ is_contract_creation(tx))
           /\ ~(is_contract_interaction(tx) /\ is_contract_creation(tx))
           /\ res.reasons = <<"simple_eth_transfer">> => tx.to_address # None


QuickFilterDone == fn = "HeuristicFilter.quick_filter" /\ res # NoValue

\* the address is one of the filter's whitelisted contracts, in any case
ToWhitelisted(hf, tx) ==
    /\ tx.to_address # None
    /\ \E a \in hf.whitelisted_contracts : a.hex = Lower(tx.to_address).hex

CallsSafeSelector(hf, tx) ==
    tx.input_data.len >= 10 /\ tx.input_data.prefix \in hf.safe_selectors

\* C27: quick_filter returns False for every simple transfer whatever its
\* value and gas, for every transaction with gas below max_safe_gas, and
\* for every call to a whitelisted contract (address compared without
\* case) with a safe selector whatever its gas; True for every other one
C27_QuickFilterCases ==
    QuickFilterDone =>
        (res.needs_analysis = FALSE) <=>
            \/ is_simple_transfer(arg.tx)
            \/ arg.tx.gas < arg.hf.max_safe_gas
            \/ ToWhitelisted(arg.hf, arg.tx) /\ CallsSafeSelector(arg.hf, arg.tx)

\* a safe selector sent with a high gas limit to the router written in
\* mixed case
C27_Witness ==
    /\ QuickFilterDone
    /\ arg.tx.to_address = Mixed("0x7a250d5630b4cf539739df2c5dacb4c659f2488d")
    /\ arg.tx.gas = 1000001
    /\ arg.tx.input_data.prefix = Hex("0xa9059cbb")
    /\ res.needs_analysis = FALSE

\* C30: quick_filter never skips a transaction that filter flags: when
\* quick_filter(tx) is False, filter(tx) is not SUSPICIOUS and its
\* indicator list is empty; and when filter(tx) has should_analyze false,
\* quick_filter(tx) is False
C30_QuickFilterRefinesFilter ==
    QuickFilterDone =>
        \A verdict \in {HeuristicFilter_filter(arg.hf, arg.tx)} :
            /\ res.needs_analysis = FALSE =>
                  verdict.result # "suspicious" /\ verdict.risk_indicators = <<>>
            /\ verdict.should_analyze = FALSE => res.needs_analysis = FALSE

----------------------------------------------------------------------------
(* Sample inputs: bytecodes, chains, traces and pending transactions *)

ExploitBody == CodeBody(TRUE, "0x1234567890abcdef", {"ff", "f4"}, {}, FALSE, 12, {1, 2, 3})
ProxyBody == CodeBody(TRUE, "0x5e1f0c2d3b4a6978", {"f4"}, {"eip1822", "transparent"}, FALSE, 9, {4, 5})
RouterBody == CodeBody(TRUE, "0x77aa10c4e2b39d05", {"f5"}, {}, TRUE, 20, {1, 2, 3, 9})
MalformedBody == CodeBody(FALSE, "", {}, {}, FALSE, 0, {})

EmptyInput == Input(0, EmptyStr, 0, NoCode)
Input0x == Input(2, Hex("0x"), 0, NoCode)

\* a call carrying a selector and an amount word
AmountInput(selector, amount) == Input(138, selector, amount, NoCode)

\* deployment code
CreationInput(len, body) == Input(len, Hex("0x60806040"), 0, body)

MaxBlock == 8

\* the registry after add_exploit_bytecode("registered", ...)
RegisteredExploits ==
    << <<"registered", Text(400, FALSE, CodeBody(TRUE, "0xaaaa000000000000", {"ff"}, {}, FALSE, 12, {1, 2, 3}))>> >>

ChainAddresses == {UniswapV2Router, Mixed(UniswapV2Router.hex), AaveV2Pool, UnlistedAddress}

ChainCode(address) ==
    IF Lower(address) = UniswapV2Router THEN Text(4000, FALSE, RouterBody)
    ELSE IF address = AaveV2Pool THEN Text(180, FALSE, ProxyBody)
    ELSE Text0x

\* the router has code from block 3 on, the pool from block 2 on
ChainCodeBlocks(address) ==
    IF Lower(address) = UniswapV2Router THEN 3..MaxBlock
    ELSE IF address = AaveV2Pool THEN 2..MaxBlock
    ELSE {}

SampleChain(get_code_fails, history_fails) ==
    Chain(get_code_fails, [a \in ChainAddresses |-> ChainCode(a)], MaxBlock,
          [a \in ChainAddresses |-> ChainCodeBlocks(a)], history_fails)

Chains ==
    {NoChain, SampleChain(FALSE, FALSE), SampleChain(TRUE, FALSE), SampleChain(FALSE, TRUE)}

TransferLog(address, amount) == TraceLog(address, <<transfer_topic>>, amount)

FlashLoanLog(address, amount) ==
    TraceLog(address, <<"0x631042c832b07452973831137f2d73e395028b44b250dedc5abb0ee766e168ac">>, amount)

Leaf(call_type, to_address, value, input_data) ==
    TraceCall(call_type, to_address, value, 50000, 49000, input_data, <<>>)

\* a plain value transfer
PlainTrace ==
    TransactionTrace("0xa1", MaxBlock, UnlistedAddress, Ether, 21000, Input0x, TRUE,
                     <<>>, NoCallTrace, <<>>, <<>>, <<>>, <<>>)

\* a router swap known by its logs only
SwapTrace ==
    TransactionTrace("0xa2", MaxBlock, Mixed(UniswapV2Router.hex), 0, 150000,
                     CallInput(Hex("0x38ed1739")), TRUE,
                     << TransferLog(UnlistedAddress, 5 * Ether),
                        TransferLog(AaveV2Pool, -2),
                        TraceLog(UniswapV2Router, <<>>, -2) >>,
                     NoCallTrace, <<>>, <<>>, <<UniswapV2Router>>, <<>>)

\* a flash loan taken from the pool, with a nested loan in the callback
FlashLoanTrace ==
    TransactionTrace("0xa3", MaxBlock, AaveV2Pool, 0, 900000,
                     AmountInput(Hex("0xab9c4b5d"), 20000 * Ether), TRUE,
                     << FlashLoanLog(AaveV2Pool, 20000 * Ether) >>,
                     TraceCall("CALL", AaveV2Pool, 0, 900000, 880000,
                               AmountInput(Hex("0xab9c4b5d"), 20000 * Ether),
                               << TraceCall("DELEGATECALL", UnlistedAddress, 0, 60000, 58000,
                                            CallInput(Hex("0x920f5c84")),
                                            << Leaf("CALL", Mixed(AaveV2Pool.hex), 0,
                                                    AmountInput(Hex("0x5cffe9de"), 300 * Ether)),
                                               Leaf("CREATE2", None, 1, CallInput(UnlistedSelector)) >>),
                                  Leaf("CALL", UnlistedAddress, 0,
                                       CallInput(Hex("0xa9059cbb"))) >>),
                     << StorageChange(UnlistedAddress, 0, 0, 30 * Ether),
                        StorageChange(Mixed(UnlistedAddress.hex), 0, 30 * Ether, 0),
                        StorageChange(AaveV2Pool, 11, 5 * Ether, 20 * Ether),
                        StorageChange(AaveV2Pool, -1, -1, 20000 * Ether),
                        StorageChange(AaveV2Pool, 3, 7, 7) >>,
                     ("SSTORE" :> 5), <<AaveV2Pool, UnlistedAddress>>, <<UnlistedAddress>>)

\* the deployment of bytecode whose hash is on the known-exploit list
ExploitDeployTrace ==
    TransactionTrace("0xa4", MaxBlock, None, 0, 1200000, CreationInput(400, ExploitBody),
                     TRUE, <<>>, NoCallTrace, <<>>, <<>>, <<>>, <<UnlistedAddress>>)

\* a deployment whose input is not hex text
MalformedDeployTrace ==
    TransactionTrace("0xa5", MaxBlock, None, 0, 1200000, CreationInput(401, MalformedBody),
                     FALSE, <<>>, NoCallTrace, <<>>, <<>>, <<>>, <<>>)

\* a trace known by its opcode counts
OpcodeTrace ==
    TransactionTrace("0xa6", MaxBlock, EmptyStr, 0, 600000, CallInput(UnlistedSelector), TRUE,
                     <<>>, NoCallTrace, <<>>,
                     ("CALL" :> 3) @@ ("DELEGATECALL" :> 1) @@ ("REVERT" :> 2) @@ ("SLOAD" :> 4),
                     <<>>, <<>>)

\* a call tree in which a flash-loan call has no to-address
BrokenTreeTrace ==
    TransactionTrace("0xa7", MaxBlock, UniswapV2Router, 0, 300000,
                     CallInput(Hex("0x38ed1739")), TRUE, <<>>,
                     Leaf("CALL", None, 0, CallInput(Hex("0x490e6cbc"))),
                     <<>>, <<>>, <<>>, <<>>)

Traces ==
    {PlainTrace, SwapTrace, FlashLoanTrace, ExploitDeployTrace, MalformedDeployTrace,
     OpcodeTrace, BrokenTreeTrace}

PendingTxs ==
    {PendingTransaction("0xb1", to, value, gas, input) :
        to \in {None, UniswapV2Router, UnlistedAddress},
        value \in {0, 1, Ether},
        gas \in {21000, 100000, 1000001},
        input \in {EmptyInput, Input0x, CallInput(Hex("0xa9059cbb")),
                   CallInput(Hex("0xab9c4b5d")), CallInput(UnlistedSelector),
                   CreationInput(400, ExploitBody), CreationInput(401, MalformedBody)}}

----------------------------------------------------------------------------
(* The feature vector of extract_from_trace and extract_from_pending *)

Aggregators == {DefaultFeatureAggregator, FeatureAggregator(RegisteredExploits, <<>>)}

HashSeeds == {0, 1}

InitAggregator ==
    /\ EngineIdle
    /\ \/ /\ fn = "extract_from_trace"
          /\ arg \in [agg : Aggregators, trace : Traces, w3 : Chains, hash_seed : HashSeeds]
       \/ /\ fn = "extract_from_pending"
          /\ arg \in [agg : Aggregators, tx : PendingTxs]
    /\ res = NoValue

\* extract_from_trace(trace, w3), then to_vector and feature_names of its result
ApplyExtractFromTrace ==
    /\ fn = "extract_from_trace"
    /\ res = NoValue
    /\ res' = IF ExtractFromTraceRaises(arg.agg, arg.trace, arg.w3)
              THEN [raised |-> TRUE]
              ELSE LET features == extract_from_trace(arg.agg, arg.trace, arg.w3, arg.hash_seed)
                   IN [raised |-> FALSE, features |-> features,
                       vector |-> to_vector(features), names |-> feature_names,
                       agg |-> AggregatorAfterTrace(arg.agg, arg.trace, arg.w3)]
    /\ UNCHANGED <<engineVars, fn, arg>>

\* extract_from_pending(tx), then to_vector and feature_names of its result
ApplyExtractFromPending ==
    /\ fn = "extract_from_pending"
    /\ res = NoValue
    /\ res' = IF ExtractFromPendingRaises(arg.tx)
              THEN [raised |-> TRUE]
              ELSE LET features == extract_from_pending(arg.agg, arg.tx)
                   IN [raised |-> FALSE, features |-> features,
                       vector |-> to_vector(features), names |-> feature_names,
                       agg |-> arg.agg]
    /\ UNCHANGED <<engineVars, fn, arg>>

NextAggregator == ApplyExtractFromTrace \/ ApplyExtractFromPending

SpecAggregator == InitAggregator /\ [][NextAggregator]_vars

\* the feature a name of feature_names names, as the float the vector holds
NamedFeature(f, name) ==
    LET Flag(b) == IF b THEN Rat(1, 1) ELSE Zero
        Whole(n) == Rat(n, 1)
        fl == f.flash_loan
        sv == f.state_variance
        bc == f.bytecode
        op == f.opcode
    IN CASE name = "fl_has_flash_loan" -> Flag(fl.has_flash_loan)
         [] name = "fl_count" -> Whole(fl.flash_loan_count)
         [] name = "fl_provider_count" -> Whole(Len(fl.flash_loan_providers))
         [] name = "fl_total_borrowed" -> Rat(fl.total_borrowed, IF fl.total_borrowed > 0 THEN Ether ELSE 1)
         [] name = "fl_has_callback" -> Flag(fl.has_callback)
         [] name = "fl_callback_count" -> Whole(Len(fl.callback_selectors))
         [] name = "fl_nested" -> Flag(fl.nested_flash_loans)
         [] name = "fl_repayment" -> Flag(fl.repayment_detected)
         [] name = "sv_storage_changes" -> Whole(sv.total_storage_changes)
         [] name = "sv_contracts_modified" -> Whole(sv.unique_contracts_modified)
         [] name = "sv_slots_modified" -> Whole(sv.unique_slots_modified)
         [] name = "sv_balance_changes" -> Whole(sv.balance_slot_changes)
         [] name = "sv_large_changes" -> Whole(sv.large_value_changes)
         [] name = "sv_max_delta" -> Rat(sv.max_value_delta, IF sv.max_value_delta > 0 THEN Ether ELSE 1)
         [] name = "sv_avg_delta" -> IF sv.avg_value_delta[1] > 0
                                     THEN Rat(sv.avg_value_delta[1], sv.avg_value_delta[2] * Ether)
                                     ELSE Zero
         [] name = "sv_variance_ratio" -> sv.variance_ratio
         [] name = "sv_zero_to_nonzero" -> Whole(sv.zero_to_nonzero)
         [] name = "sv_nonzero_to_zero" -> Whole(sv.nonzero_to_zero)
         [] name = "bc_length" -> Whole(bc.bytecode_length)
         [] name = "bc_is_contract" -> Flag(bc.is_contract)
         [] name = "bc_is_proxy" -> Flag(bc.is_proxy)
         [] name = "bc_age_blocks" -> Whole(bc.contract_age_blocks)
         [] name = "bc_is_verified" -> Flag(bc.is_verified)
         [] name = "bc_matches_exploit" -> Flag(bc.matches_known_exploit)
         [] name = "bc_jaccard" -> bc.jaccard_similarity
         [] name = "bc_has_selfdestruct" -> Flag(bc.has_selfdestruct)
         [] name = "bc_has_delegatecall" -> Flag(bc.has_delegatecall)
         [] name = "bc_has_create2" -> Flag(bc.has_create2)
         [] name = "bc_unique_opcodes" -> Whole(bc.unique_opcodes)
         [] name = "op_total_calls" -> Whole(op.total_calls)
         [] name = "op_call_depth" -> Whole(op.call_depth)
         [] name = "op_delegatecall" -> Whole(op.delegatecall_count)
         [] name = "op_staticcall" -> Whole(op.staticcall_count)
         [] name = "op_create" -> Whole(op.create_count)
         [] name = "op_create2" -> Whole(op.create2_count)
         [] name = "op_selfdestruct" -> Whole(op.selfdestruct_count)
         [] name = "op_call" -> Whole(op.call_count)
         [] name = "op_internal_calls" -> Whole(op.internal_calls)
         [] name = "op_external_calls" -> Whole(op.external_calls)
         [] name = "op_unique_types" -> Whole(op.unique_call_types)
         [] name = "op_value_transfers" -> Whole(op.call_value_transfers)
         [] name = "op_gas_ratio" -> op.gas_forwarded_ratio
         [] name = "op_revert_count" -> Whole(op.revert_count)

\* C9: the vector of every feature record that extract_from_trace (with or
\* without a chain handle) or extract_from_pending produces has length 43,
\* which is 8 + 10 + 11 + 14 for the flash-loan, state-variance, bytecode
\* and opcode groups in that order, and its position i holds the feature
\* that feature_names[i] names
C9_VectorLayout ==
    (fn \in {"extract_from_trace", "extract_from_pending"}
     /\ res # NoValue /\ ~res.raised) =>
        /\ Len(res.vector) = 43
        /\ Len(res.names) = 43
        /\ Len(FlashLoanFeatures_to_vector(res.features.flash_loan)) = 8
        /\ Len(StateVarianceFeatures_to_vector(res.features.state_variance)) = 10
        /\ Len(BytecodeFeatures_to_vector(res.features.bytecode)) = 11
        /\ Len(OpcodeFeatures_to_vector(res.features.opcode)) = 14
        /\ \A i \in 1..43 :
              res.vector[i] = Float32(NamedFeature(res.features, res.names[i]))

\* a trace read with a chain handle whose vector has a non-zero entry in
\* each of the four groups: flash loan, storage changes, contract age, calls
C9_Witness ==
    /\ fn = "extract_from_trace"
    /\ res # NoValue /\ ~res.raised
    /\ arg.w3 # NoChain
    /\ res.vector[1] = Rat(1, 1)
    /\ res.vector[9][1] > 0
    /\ res.vector[22][1] > 0
    /\ res.vector[30][1] > 0
    /\ res.vector[43] = Zero

----------------------------------------------------------------------------
(* A trace assessed with a chain handle: extract_from_trace(trace, w3),
   then filter_with_features on the features *)

InitAssess ==
    /\ EngineIdle
    /\ fn = "assess_trace"
    /\ arg \in [agg : Aggregators, trace : Traces, w3 : Chains, hash_seed : HashSeeds]
    /\ res = NoValue

\* features = extract_from_trace(trace, w3); heuristic = filter_with_features(features)
ApplyAssessTrace ==
    /\ fn = "assess_trace"
    /\ res = NoValue
    /\ res' = IF ExtractFromTraceRaises(arg.agg, arg.trace, arg.w3)
              THEN [raised |-> TRUE]
              ELSE The({[raised |-> FALSE, features |-> features,
                         heuristic |-> filter_with_features(features)] :
                        features \in {extract_from_trace(arg.agg, arg.trace, arg.w3,
                                                         arg.hash_seed)}})
    /\ UNCHANGED <<engineVars, fn, arg>>

NextAssess == ApplyAssessTrace

SpecAssess == InitAssess /\ [][NextAssess]_vars

AssessDone == fn = "assess_trace" /\ res # NoValue /\ ~res.raised

\* the indicators that the checks of the bytecode record produce
BytecodeIndicators ==
    {"matches_known_exploit", "high_bytecode_similarity", "new_contract",
     "selfdestruct_opcode"}

\* the indicators of a feature record with the bytecode checks skipped
IndicatorsSkippingBytecode(features) ==
    LET NotOfBytecode(name) == name \notin BytecodeIndicators
    IN SelectSeq(IndicatorsBeforeExploit(features) \o IndicatorsAfterExploit(features),
                 NotOfBytecode)

\* the to-address has bytecode to fetch and the fetch cannot succeed
BytecodeUnobtainable ==
    /\ arg.trace.to_address # None
    /\ \/ arg.w3 = NoChain
       \/ arg.w3.get_code_fails /\ arg.trace.to_address \notin DOMAIN arg.agg.bytecode_cache

\* C21: when the bytecode of the to-address cannot be obtained (no chain
\* handle, or get_code fails), the assessment still completes, the
\* bytecode record is the empty record, and the heuristic filter emits no
\* indicator on account of it: indicator list and verdict are those of
\* the filter with its bytecode checks skipped
C21_EmptyBytecodeEmitsNothing ==
    (fn = "assess_trace" /\ res # NoValue /\ BytecodeUnobtainable
     /\ ~FlashLoanWalkRaises(arg.trace)) =>
        /\ ~res.raised
        /\ res.features.bytecode = EmptyBytecode
        /\ res.heuristic.risk_indicators = IndicatorsSkippingBytecode(res.features)
        /\ res.heuristic.result
             = VerdictByCount(IndicatorsSkippingBytecode(res.features)).result

----------------------------------------------------------------------------
(* FlashLoanExtractor.extract over traces that carry each source of a
   flash-loan signal alone and in combination *)

FlashSelector == Hex("0xab9c4b5d")

\* call trees: none; one call to a provider with another selector; one
\* flash-loan call to an unlisted address; each of the two as a child; a
\* flash-loan call that has no to-address
FlashTrees ==
    {NoCallTrace,
     Leaf("CALL", AaveV2Pool, 0, CallInput(Hex("0xa9059cbb"))),
     Leaf("CALL", UnlistedAddress, 0, CallInput(FlashSelector)),
     TraceCall("CALL", UnlistedAddress, 0, 60000, 58000, CallInput(UnlistedSelector),
               << Leaf("STATICCALL", Mixed(AaveV2Pool.hex), 0, CallInput(UnlistedSelector)) >>),
     TraceCall("CALL", UnlistedAddress, 0, 60000, 58000, CallInput(UnlistedSelector),
               << Leaf("CALL", UnlistedAddress, 0, Input0x),
                  Leaf("CALL", UnlistedAddress, 0, CallInput(Hex("0x5cffe9de"))) >>),
     Leaf("CALL", UnlistedAddress, 0, CallInput(UnlistedSelector)),
     Leaf("CALL", None, 0, CallInput(FlashSelector))}

FlashLogs ==
    {<<>>,
     << FlashLoanLog(AaveV2Pool, 20 * Ether) >>,
     << TransferLog(UnlistedAddress, Ether), FlashLoanLog(UnlistedAddress, -2) >>,
     << TransferLog(AaveV2Pool, Ether), TraceLog(AaveV2Pool, <<>>, -2) >>}

FlashTraces ==
    {TransactionTrace("0xf1", MaxBlock, UnlistedAddress, 0, 100000, input, TRUE, logs, tree,
                      <<>>, <<>>, <<>>, <<>>) :
        input \in {CallInput(FlashSelector), CallInput(UnlistedSelector), Input0x},
        logs \in FlashLogs, tree \in FlashTrees}

InitFlashLoan ==
    /\ EngineIdle
    /\ fn = "FlashLoanExtractor.extract"
    /\ arg \in [trace : FlashTraces, hash_seed : HashSeeds]
    /\ res = NoValue

\* FlashLoanExtractor().extract(trace)
ApplyFlashLoanExtract ==
    /\ fn = "FlashLoanExtractor.extract"
    /\ res = NoValue
    /\ res' = IF FlashLoanWalkRaises(arg.trace) THEN [raised |-> TRUE]
              ELSE [raised |-> FALSE,
                    features |-> FlashLoanExtractor_extract(arg.trace, arg.hash_seed)]
    /\ UNCHANGED <<engineVars, fn, arg>>

NextFlashLoan == ApplyFlashLoanExtract

SpecFlashLoan == InitFlashLoan /\ [][NextFlashLoan]_vars

\* the calls of a trace's tree
TreeCalls(trace) ==
    IF HasCallTrace(trace)
    THEN {n.call : n \in Range(WalkCalls(trace.call_trace, 0))}
    ELSE {}

\* (a) the selector of the outer call or of a call of the tree is a
\* flash-loan selector
SelectorSource(trace) ==
    \/ SelectorOrEmpty(trace.input_data) \in FLASH_LOAN_SIGNATURES
    \/ \E c \in TreeCalls(trace) : SelectorOrEmpty(c.input_data) \in FLASH_LOAN_SIGNATURES

\* (b) a call of the tree goes to a flash-loan provider
ProviderSource(trace) ==
    \E c \in TreeCalls(trace) :
        c.to_address # None /\ Lower(c.to_address) \in DOMAIN provider_addresses

\* (c) topic0 of a log is a flash-loan event topic
TopicSource(trace) ==
    \E i \in DOMAIN trace.logs :
        /\ trace.logs[i].topics # <<>>
        /\ trace.logs[i].topics[1] \in DOMAIN FLASH_LOAN_EVENT_TOPICS

\* C23: FlashLoanExtractor.extract reports has_flash_loan true whenever
\* one of the three sources fires on its own (a flash-loan selector on
\* the outer call or a call of the tree, a call of the tree to a provider
\* address, a flash-loan event topic as topic0 of a log) and false only
\* when none fires
C23_AnySourceFires ==
    (fn = "FlashLoanExtractor.extract" /\ res # NoValue
     /\ \A c \in TreeCalls(arg.trace) : c.to_address # None) =>
        /\ ~res.raised
        /\ res.features.has_flash_loan
             = (SelectorSource(arg.trace) \/ ProviderSource(arg.trace)
                \/ TopicSource(arg.trace))

----------------------------------------------------------------------------
(* The SignalEngine as a state machine *)

\* analyses per run
MaxAnalyses == 2

\* registered sinks per engine
MaxSinks == 2

\* measured latencies, in whole milliseconds: 0..MaxLatency
MaxLatency == 1

\* wall-clock readings: 1..MaxClock
MaxClock == 2

\* an artifact fitted on the 43-entry vector; a transaction with six or
\* more non-zero features scores as an anomaly
SampleForest == Detector(650000, 43, 300000, 100000)

\* an artifact fitted on a narrower vector; load() accepts it as it is
MisfitForest == Detector(650000, 40, 300000, 100000)

Detectors == {NoValue, SampleForest, MisfitForest}

ZeroSignalStats ==
    [total_analyzed |-> 0, safe |-> 0, low |-> 0, medium |-> 0, high |-> 0,
     critical |-> 0, total_latency_ms |-> 0, protocol_adjustments |-> 0]

\* SignalEngine.__init__(model_path, alert_callbacks, min_alert_level,
\* enable_protocol_filter); sinks are named by their position of registration
InitSignal ==
    /\ tables = ModuleTables
    /\ database = NoValue
    /\ engine = "signal"
    /\ enable_simulation = FALSE
    /\ \/ /\ hash_seed \in HashSeeds
          /\ protocol_filter \in {NoValue, DefaultProtocolFilter}
          /\ ml_detector \in Detectors
          /\ min_alert_level = "medium"
          /\ alert_callbacks = <<>>
       \/ /\ hash_seed = 0
          /\ protocol_filter = DefaultProtocolFilter
          /\ ml_detector = SampleForest
          /\ min_alert_level \in Range(RiskLevels)
          /\ alert_callbacks \in {<<>>, <<1>>}
    /\ stats = ZeroSignalStats
    /\ call = NoValue
    /\ observed = NoValue
    /\ fn = "none" /\ arg = NoValue /\ res = NoValue

\* the signal as to_dict gives it, without the two fields that read the clock
Canonical(d) == [k \in DOMAIN d \ {"timestamp", "latency_ms"} |-> d[k]]

\* an onlooker keeps one signal, taken at the earliest clock readings
Observe(keep) ==
    IF keep
    THEN observed' = [trace |-> call'.trace, dict |-> to_dict(call'.signal),
                      at |-> stats'.total_analyzed]
    ELSE observed' = observed

\* what the steps up to the explanation give for each sample trace (named
\* by its hash) under each configuration: the exception that ends them, or
\* the assessment and the protocol filter's verdict
Pipeline ==
    [enable_protocol_filter \in BOOLEAN, detector \in Detectors,
     seed \in HashSeeds, h \in {t.tx_hash : t \in Traces} |->
        LET t == CHOOSE x \in Traces : x.tx_hash = h
            pf == IF enable_protocol_filter THEN DefaultProtocolFilter ELSE NoValue
        IN The({IF exception # "none"
                THEN [exception |-> exception]
                ELSE The({[exception |-> "none", a |-> a,
                           f |-> apply_protocol_filter(pf, t, a)] :
                          a \in {Assess(detector, seed, t)}}) :
                exception \in {PipelineException(detector, seed, t)}})]

\* SignalEngine.analyze(trace)
Analyze ==
    /\ engine = "signal"
    /\ stats.total_analyzed < MaxAnalyses
    /\ \E trace \in Traces, timestamp \in 1..MaxClock, latency \in 0..MaxLatency,
          raising \in SUBSET (1..Len(alert_callbacks)) :
          \E p \in {Pipeline[protocol_filter # NoValue, ml_detector, hash_seed, trace.tx_hash]} :
             /\ IF p.exception # "none"
                THEN /\ call' = Raised("analyze", trace, p.exception)
                     /\ stats' = stats
                ELSE \E kwargs \in {analyze_kwargs(trace, p.a, timestamp, latency)} :
                        Conclude("analyze", trace, kwargs, stats, latency, raising)
             /\ raising \subseteq DOMAIN call'.invoked
             /\ call'.outcome = "raised" => timestamp = 1 /\ latency = 0
    /\ observed' = observed
    /\ UNCHANGED <<tables, database, engine, hash_seed, protocol_filter, ml_detector, enable_simulation,
                   min_alert_level, alert_callbacks, harnessVars>>

\* SignalEngine.analyze_async(trace)
AnalyzeAsync ==
    /\ engine = "signal"
    /\ stats.total_analyzed < MaxAnalyses
    /\ \E trace \in Traces, timestamp \in 1..MaxClock, latency \in 0..MaxLatency,
          raising \in SUBSET (1..Len(alert_callbacks)), keep \in BOOLEAN :
          \E p \in {Pipeline[protocol_filter # NoValue, ml_detector, hash_seed, trace.tx_hash]} :
             /\ IF p.exception # "none"
                THEN /\ call' = Raised("analyze_async", trace, p.exception)
                     /\ stats' = stats
                ELSE \E counted \in {IF protocol_filter # NoValue /\ p.f.risk_adjustment # 0
                                      THEN [stats EXCEPT !.protocol_adjustments = @ + 1]
                                      ELSE stats},
                        kwargs \in {analyze_async_kwargs(trace, p.a, p.f, timestamp, latency)} :
                        Conclude("analyze_async", trace, kwargs, counted, latency, raising)
             /\ raising \subseteq DOMAIN call'.invoked
             /\ keep => /\ observed = NoValue
                         /\ call'.outcome = "returned"
                         /\ timestamp = 1 /\ latency = 0
             /\ Observe(keep)
    /\ UNCHANGED <<tables, database, engine, hash_seed, protocol_filter, ml_detector, enable_simulation,
                   min_alert_level, alert_callbacks, harnessVars>>

\* SignalEngine.add_alert_callback(callback)
AddAlertCallback ==
    /\ engine = "signal"
    /\ Len(alert_callbacks) < MaxSinks
    /\ alert_callbacks' = Append(alert_callbacks, Len(alert_callbacks) + 1)
    /\ call' = [op |-> "add_alert_callback", outcome |-> "returned"]
    /\ UNCHANGED <<tables, database, engine, hash_seed, protocol_filter, ml_detector, enable_simulation,
                   min_alert_level, stats, observed, harnessVars>>

\* SignalEngine.get_stats()
SignalGetStats ==
    /\ engine = "signal"
    /\ LET total == stats.total_analyzed
       IN call' = [op |-> "get_stats", outcome |-> "returned",
                   result |-> [total_analyzed |-> total,
                               by_risk_level |-> [l \in Range(RiskLevels) |-> stats[l]],
                               avg_latency_ms |-> IF total > 0
                                                  THEN Rat(stats.total_latency_ms, total)
                                                  ELSE Zero,
                               alert_rate |-> IF total > 0
                                              THEN Rat(stats.medium + stats.high + stats.critical,
                                                       total)
                                              ELSE Zero]]
    /\ UNCHANGED <<tables, database, engine, hash_seed, protocol_filter, ml_detector, enable_simulation,
                   min_alert_level, alert_callbacks, stats, observed, harnessVars>>

NextSignal == Analyze \/ AnalyzeAsync \/ AddAlertCallback \/ SignalGetStats

SpecSignal == InitSignal /\ [][NextSignal]_vars

----------------------------------------------------------------------------
(* Properties of the SignalEngine *)

\* the last call was an analysis
AnalysisCall == call # NoValue /\ call.op \in {"analyze", "analyze_async"}

\* the last call was an analysis that returned a signal
SignalReturned == AnalysisCall /\ call.outcome = "returned"

\* the sinks invoked by the last analysis, in the order of their invocation
SinksInvoked == [i \in DOMAIN call.invoked |-> call.invoked[i].sink]

\* C1: every signal analyze or analyze_async returns carries the level the
\* threshold table gives its risk_score (critical from 0.70, high from 0.50,
\* medium from 0.35, low from 0.20, else safe), whether the protocol filter
\* is enabled or not and whether a detector is loaded or not
C1_LevelMatchesTable ==
    SignalReturned => call.signal.risk_level = score_to_level(call.signal.risk_score)

\* C3: every call of analyze or analyze_async returns one signal with every
\* field set, protocol, operation, raw_risk_score and risk_adjustment
\* included; no exception escapes, and a call that produced no signal
\* invoked no sink
C3_AlwaysOneFullSignal ==
    AnalysisCall =>
        /\ call.outcome = "returned"
        /\ call.signal # NoValue
        /\ RiskSignalRequired \subseteq DOMAIN call.signal
        /\ {"protocol", "operation", "raw_risk_score", "risk_adjustment"}
              \subseteq DOMAIN call.signal

\* C7: when a sink raises while handling a signal the call still returns
\* the signal, every registered sink (those after the failing one included)
\* was invoked for it, and the counters each sink could read already count
\* this analysis
C7_SinkFailuresContained ==
    (AnalysisCall /\ call.raising # {}) =>
        /\ call.outcome = "returned"
        /\ call.signal # NoValue
        /\ SinksInvoked = alert_callbacks
        /\ \A i \in DOMAIN call.invoked :
              /\ call.invoked[i].received = call.signal.tx_hash
              /\ call.invoked[i].seen = stats
              /\ call.invoked[i].seen.total_analyzed >= 1
              /\ call.invoked[i].seen[call.signal.risk_level] >= 1

C7_Witness ==
    /\ SignalReturned
    /\ call.raising = {1}
    /\ Len(call.invoked) = 2
    /\ call.invoked[2].sink = 2

\* the order SAFE < LOW < MEDIUM < HIGH < CRITICAL
AtOrAbove(level, threshold) ==
    \E i, j \in DOMAIN RiskLevels : RiskLevels[i] = level /\ RiskLevels[j] = threshold /\ i >= j

\* the state part of C8
C8_FanOut ==
    /\ engine = "signal" => alert_callbacks = [i \in 1..Len(alert_callbacks) |-> i]
    /\ SignalReturned =>
          /\ SinksInvoked = IF AtOrAbove(call.signal.risk_level, min_alert_level)
                            THEN alert_callbacks
                            ELSE <<>>
          /\ \A i \in DOMAIN call.invoked :
                /\ call.invoked[i].received = call.signal.tx_hash
                /\ call.invoked[i].level = call.signal.risk_level
                /\ RiskSignalRequired \subseteq DOMAIN call.signal
                /\ call.invoked[i].seen = stats

\* the registered sinks only grow, at the end
C8_OnlyAdded ==
    /\ Len(alert_callbacks') >= Len(alert_callbacks)
    /\ SubSeq(alert_callbacks', 1, Len(alert_callbacks)) = alert_callbacks

\* C8: an analysis invokes every registered sink once, in registration
\* order (constructor list first, then add_alert_callback order), with the
\* finished signal and after the counters are updated, when the signal's
\* level is at or above min_alert_level, and invokes none otherwise; sinks
\* are added and never removed
C8_SinksInOrderOnceIfAtLevel == []C8_FanOut /\ [][C8_OnlyAdded]_vars

C8_Witness ==
    /\ SignalReturned
    /\ alert_callbacks = <<1, 2>>
    /\ SinksInvoked = <<1, 2>>
    /\ call.signal.risk_level = min_alert_level
    /\ min_alert_level # "safe"

\* a state where registered sinks stay silent
C8_SilentWitness ==
    /\ SignalReturned
    /\ alert_callbacks = <<1, 2>>
    /\ SinksInvoked = <<>>

KnownBadTrace ==
    /\ engine = "signal" /\ call # NoValue
    /\ call.op \in {"analyze", "analyze_async"}
    /\ call.outcome = "returned"
    /\ extract_from_trace(DefaultFeatureAggregator,
                          CHOOSE t \in Traces : t.tx_hash = call.trace, NoChain, hash_seed)
          .bytecode.matches_known_exploit

\* C24: for a trace whose bytecode record matches a registered known-bad
\* sample the signal engine's result has heuristic verdict SUSPICIOUS with
\* confidence 0.95 and matches_known_exploit among its indicators, and
\* for every anomaly score above 0 an adjusted risk score of at least
\* 0.70 and the final level CRITICAL
C24_KnownBadIsCritical ==
    KnownBadTrace =>
        /\ call.signal.heuristic_result = "suspicious"
        /\ call.signal.heuristic_confidence = (95 * ONE) \div 100
        /\ "matches_known_exploit" \in Range(call.signal.risk_indicators)
        /\ call.signal.ml_score > 0 =>
              /\ 10 * call.signal.risk_score >= 7 * ONE
              /\ call.signal.risk_level = "critical"

\* total_analyzed and the five per-level counters
LevelCounters(s) == [k \in {"total_analyzed"} \cup Range(RiskLevels) |-> s[k]]

\* one step of the engine: the counters move only with a signal that
\* analyze_async returns, by one in total_analyzed and by one in the
\* counter of that signal's level, and they move with every such signal
CountedWithSignal ==
    /\ LevelCounters(stats') # LevelCounters(stats) =>
          /\ call'.op = "analyze_async" /\ call'.outcome = "returned"
          /\ stats'.total_analyzed = stats.total_analyzed + 1
          /\ \A level \in Range(RiskLevels) :
                stats'[level] = stats[level]
                                + (IF level = call'.signal.risk_level THEN 1 ELSE 0)
    /\ (call' # call /\ call'.op = "analyze_async" /\ call'.outcome = "returned") =>
          LevelCounters(stats') # LevelCounters(stats)

\* C29: after any analyze_async calls, those whose sinks raise and those
\* that fail before a signal exists included, total_analyzed is the sum
\* of the five per-level counters and the number of signals returned so
\* far, and each returned signal added one to the counter of its own
\* final level and to no other
C29_CountersMatchSignals ==
    /\ [](engine = "signal" =>
             stats.total_analyzed
                = stats.safe + stats.low + stats.medium + stats.high + stats.critical)
    /\ [][engine = "signal" => CountedWithSignal]_vars

\* a second signal returned while one of the sinks invoked with it raised
C29_Witness ==
    /\ engine = "signal" /\ call # NoValue
    /\ call.op = "analyze_async" /\ call.outcome = "returned"
    /\ call.raising # {}
    /\ stats.total_analyzed = 2
    /\ stats[call.signal.risk_level] >= 1


----------------------------------------------------------------------------
(* The InferenceEngine as a state machine *)

\* transactions per analyze_batch call: 0..MaxBatch
MaxBatch == 2

ZeroInferenceStats == Delta(0, 0, 0, 0, 0)

\* plain transfers of every value and gas limit, and one transaction of
\* every other kind of input
EngineTxs ==
    {tx \in PendingTxs : is_simple_transfer(tx) /\ tx.to_address # None}
    \cup {tx \in PendingTxs : tx.value = Ether /\ tx.gas = 1000001}

\* the transactions of the sample batches
BatchTxs ==
    {PendingTransaction("0xb1", UnlistedAddress, Ether, 21000, Input0x),
     PendingTransaction("0xb1", UniswapV2Router, 0, 100000, CallInput(Hex("0xab9c4b5d"))),
     PendingTransaction("0xb1", None, 0, 1000001, CreationInput(401, MalformedBody))}

Simulations == {NoTrace, SimulationTimeout, SimulationFailure, Replayed(FlashLoanTrace)}

\* analyze and analyze_trace on every sample input under every
\* configuration, clock reading and outcome of the simulation
AnalyzeRuns ==
    [detector \in Detectors, simulate \in BOOLEAN, seed \in HashSeeds,
     tx \in EngineTxs \cup BatchTxs, sim \in Simulations, latency \in 0..MaxLatency |->
        InferenceEngine_analyze(DefaultHeuristicFilter, detector, simulate, seed, tx, sim,
                                latency)]

TraceRuns ==
    [detector \in Detectors, seed \in HashSeeds, h \in {t.tx_hash : t \in Traces},
     latency \in 0..MaxLatency |->
        InferenceEngine_analyze_trace(detector, seed, CHOOSE t \in Traces : t.tx_hash = h,
                                      latency)]

\* InferenceEngine.__init__(rpc_url, model_path, enable_simulation)
InitInference ==
    /\ tables = ModuleTables
    /\ database = NoValue
    /\ engine = "inference"
    /\ hash_seed \in HashSeeds
    /\ protocol_filter = NoValue
    /\ ml_detector \in Detectors
    /\ enable_simulation \in BOOLEAN
    /\ min_alert_level = "medium"
    /\ alert_callbacks = <<>>
    /\ stats = ZeroInferenceStats
    /\ call = NoValue
    /\ observed = NoValue
    /\ fn = "none" /\ arg = NoValue /\ res = NoValue

\* what a call of the InferenceEngine leaves behind
Called(op, ran) ==
    [op |-> op, outcome |-> IF ran.exception = "none" THEN "returned" ELSE "raised",
     exception |-> ran.exception, result |-> ran.result, stages |-> ran.stages]

\* InferenceEngine.analyze(tx)
InferenceAnalyze ==
    /\ engine = "inference"
    /\ stats.total_analyzed < MaxAnalyses
    /\ \E tx \in EngineTxs, sim \in Simulations, latency \in 0..MaxLatency :
          /\ ~enable_simulation => sim = NoTrace
          /\ \E ran \in {AnalyzeRuns[ml_detector, enable_simulation, hash_seed, tx, sim,
                                       latency]} :
                /\ "simulation" \notin ran.stages => sim = NoTrace
                /\ ran.exception # "none" => latency = 0
                /\ stats' = AddDelta(stats, ran.delta)
                /\ call' = Called("analyze", ran) @@ [tx |-> tx, sim |-> sim]
    /\ UNCHANGED <<tables, database, engine, hash_seed, protocol_filter, ml_detector, enable_simulation,
                   min_alert_level, alert_callbacks, observed, harnessVars>>

\* InferenceEngine.analyze_trace(trace)
InferenceAnalyzeTrace ==
    /\ engine = "inference"
    /\ \E trace \in Traces, latency \in 0..MaxLatency :
          \E ran \in {TraceRuns[ml_detector, hash_seed, trace.tx_hash, latency]} :
             /\ ran.exception # "none" => latency = 0
             /\ stats' = AddDelta(stats, ran.delta)
             /\ call' = Called("analyze_trace", ran)
    /\ UNCHANGED <<tables, database, engine, hash_seed, protocol_filter, ml_detector, enable_simulation,
                   min_alert_level, alert_callbacks, observed, harnessVars>>

RECURSIVE SumDeltas(_)
SumDeltas(rans) ==
    IF rans = <<>> THEN ZeroInferenceStats
    ELSE AddDelta(SumDeltas(Tail(rans)), Head(rans).delta)

\* InferenceEngine.analyze_batch(transactions): gather runs every analyze
\* to its end and returns the results in the order of the transactions,
\* or raises the first exception
AnalyzeBatch ==
    /\ engine = "inference"
    /\ \E n \in 0..MaxBatch :
          /\ stats.total_analyzed + n <= MaxAnalyses
          /\ \E transactions \in [1..n -> BatchTxs],
                sims \in [1..n -> {NoTrace, SimulationTimeout}],
                latencies \in [1..n -> {MaxLatency}] :
                /\ ~enable_simulation => \A i \in 1..n : sims[i] = NoTrace
                /\ \E rans \in {[i \in 1..n |->
                                   AnalyzeRuns[ml_detector, enable_simulation, hash_seed,
                                               transactions[i], sims[i], latencies[i]]]} :
                      /\ \A i \in 1..n :
                            "simulation" \notin rans[i].stages => sims[i] = NoTrace
                      /\ stats' = AddDelta(stats, SumDeltas(rans))
                      /\ call' = [op |-> "analyze_batch",
                                  outcome |-> IF \E i \in 1..n : rans[i].exception # "none"
                                              THEN "raised" ELSE "returned",
                                  exception |->
                                      IF \E i \in 1..n : rans[i].exception # "none"
                                      THEN rans[CHOOSE i \in 1..n :
                                                  /\ rans[i].exception # "none"
                                                  /\ \A j \in 1..(i - 1) :
                                                        rans[j].exception = "none"].exception
                                      ELSE "none",
                                  result |-> IF \E i \in 1..n : rans[i].exception # "none"
                                             THEN NoValue
                                             ELSE [i \in 1..n |-> rans[i].result],
                                  stages |-> UNION {rans[i].stages : i \in 1..n}]
    /\ UNCHANGED <<tables, database, engine, hash_seed, protocol_filter, ml_detector, enable_simulation,
                   min_alert_level, alert_callbacks, observed, harnessVars>>

\* InferenceEngine.get_stats()
InferenceGetStats ==
    /\ engine = "inference"
    /\ call' = [op |-> "get_stats", outcome |-> "returned",
                result |-> [total_analyzed |-> stats.total_analyzed,
                            safe_filtered |-> stats.safe_filtered,
                            suspicious_detected |-> stats.suspicious_detected,
                            ml_analyzed |-> stats.ml_analyzed,
                            avg_latency_ms |-> IF stats.total_analyzed > 0
                                               THEN Rat(stats.total_latency_ms,
                                                        stats.total_analyzed)
                                               ELSE Zero,
                            false_positive_estimate |->
                                IF stats.suspicious_detected > 0 THEN Rat(1, 100) ELSE Zero]]
    /\ UNCHANGED <<tables, database, engine, hash_seed, protocol_filter, ml_detector, enable_simulation,
                   min_alert_level, alert_callbacks, stats, observed, harnessVars>>

\* InferenceEngine.reset_stats()
ResetStats ==
    /\ engine = "inference"
    /\ stats' = ZeroInferenceStats
    /\ call' = [op |-> "reset_stats", outcome |-> "returned", before |-> stats]
    /\ UNCHANGED <<tables, database, engine, hash_seed, protocol_filter, ml_detector, enable_simulation,
                   min_alert_level, alert_callbacks, observed, harnessVars>>

NextInference ==
    \/ InferenceAnalyze
    \/ InferenceAnalyzeTrace
    \/ AnalyzeBatch
    \/ InferenceGetStats
    \/ ResetStats

SpecInference == InitInference /\ [][NextInference]_vars

\* either engine, every public operation
Init == InitSignal \/ InitInference

Next == NextSignal \/ NextInference

Spec == Init /\ [][Next]_vars

\* how often a tag stands in an indicator list
Occurrences(indicators, tag) ==
    Cardinality({i \in DOMAIN indicators : indicators[i] = tag})

TimedOut ==
    /\ engine = "inference" /\ call # NoValue /\ call.op = "analyze"
    /\ call.sim = SimulationTimeout

\* the same analyze call when the simulation returns no trace in time
Untimed ==
    AnalyzeRuns[ml_detector, enable_simulation, hash_seed, call.tx, NoTrace, 0]

\* C22: in InferenceEngine.analyze a timeout of the trace acquisition is
\* not fatal: the call returns a result built from the features of the
\* pending transaction, simulation_timeout stands in its indicator list
\* exactly once, and against the same heuristic and detector outcome
\* without the timeout the level is never lower and at most one step
\* higher (low to medium), and higher only when another indicator is there
C22_TimeoutRaisesAtMostOneStep ==
    TimedOut =>
        /\ call.exception = Untimed.exception
        /\ call.outcome = "returned" =>
              /\ call.result.features = extract_from_pending(DefaultFeatureAggregator, call.tx)
              /\ call.result.heuristic_result = Untimed.result.heuristic_result
              /\ call.result.ml_result = Untimed.result.ml_result
              /\ Occurrences(call.result.risk_indicators, "simulation_timeout") = 1
              /\ risk_priority(call.result.risk_level) >= risk_priority(Untimed.result.risk_level)
              /\ risk_priority(call.result.risk_level) <= risk_priority(Untimed.result.risk_level) + 1
              /\ call.result.risk_level # Untimed.result.risk_level =>
                    /\ Untimed.result.risk_level = "low"
                    /\ call.result.risk_level = "medium"
                    /\ \E i \in DOMAIN call.result.risk_indicators :
                          call.result.risk_indicators[i] # "simulation_timeout"

\* a timeout that lifts a low result to medium
C22_Witness ==
    /\ TimedOut
    /\ call.outcome = "returned"
    /\ call.result.risk_level = "medium"
    /\ Untimed.result.risk_level = "low"
    /\ Occurrences(call.result.risk_indicators, "simulation_timeout") = 1

\* a timeout that leaves the level as it is
C22_UnchangedWitness ==
    /\ TimedOut
    /\ call.outcome = "returned"
    /\ call.result.risk_level = Untimed.result.risk_level
    /\ Occurrences(call.result.risk_indicators, "simulation_timeout") = 1

----------------------------------------------------------------------------
(* Properties of the InferenceEngine and of both engines' counters *)

\* C4: for a pending transaction with empty input ("0x" or "") and a
\* to-address, whatever its value and gas limit, HeuristicFilter.filter
\* gives SAFE with confidence 0.99, should_analyze false and no risk
\* indicator, and InferenceEngine.analyze returns a non-suspicious result
\* at level low with recommendation allow, having run neither feature
\* extraction nor the simulation nor the detector
C4_SimpleTransferShortCut ==
    (engine = "inference" /\ call # NoValue /\ call.op = "analyze"
     /\ is_simple_transfer(call.tx) /\ call.tx.to_address # None) =>
        /\ call.outcome = "returned"
        /\ call.result.heuristic_result.result = "safe"
        /\ call.result.heuristic_result.confidence = (99 * ONE) \div 100
        /\ ~call.result.heuristic_result.should_analyze
        /\ call.result.heuristic_result.risk_indicators = <<>>
        /\ call.result.heuristic_result = HeuristicFilter_filter(DefaultHeuristicFilter, call.tx)
        /\ ~call.result.is_suspicious
        /\ call.result.risk_level = "low"
        /\ call.result.recommendation = "allow"
        /\ call.stages = {"heuristic_filter"}
        /\ call.result.features = NoValue
        /\ call.result.ml_result = NoValue

C4_Witness ==
    /\ engine = "inference" /\ call # NoValue /\ call.op = "analyze"
    /\ call.tx.input_data.len = 0
    /\ call.tx.to_address = UniswapV2Router
    /\ call.tx.value = Ether /\ call.tx.gas = 1000001
    /\ ml_detector = SampleForest /\ enable_simulation
    /\ call.outcome = "returned"
    /\ stats.safe_filtered = 2

\* the counters of the engine at hand
Counters == DOMAIN stats

\* no counter is lower after the step than before it
NonDecreasing == \A k \in Counters : stats'[k] >= stats[k]

RiskFeatures ==
    {AggregatedFeatures(
        [EmptyFlashLoan EXCEPT !.has_flash_loan = fl[1],
                               !.nested_flash_loans = fl[2],
                               !.total_borrowed = fl[3]],
        [EmptyStateVariance EXCEPT !.large_value_changes = sv[1],
                                   !.total_storage_changes = sv[2],
                                   !.max_value_delta = sv[3],
                                   !.variance_ratio = sv[4]],
        [EmptyBytecode EXCEPT !.matches_known_exploit = ex,
                              !.jaccard_similarity = bc[1],
                              !.contract_age_blocks = bc[2],
                              !.has_selfdestruct = bc[3]],
        [EmptyOpcode EXCEPT !.delegatecall_count = op[1],
                            !.create2_count = op[2],
                            !.call_depth = op[3],
                            !.total_calls = op[4]],
        [gas_used |-> 0]) :
      fl \in {<<FALSE, FALSE, 0>>, <<TRUE, FALSE, 0>>, <<TRUE, TRUE, 1000001 * Ether>>},
      sv \in {<<0, 0, 0, Zero>>, <<4, 11, 10001 * Ether, Rat(1, 1)>>},
      ex \in BOOLEAN,
      bc \in {<<Zero, 100, FALSE>>, <<Rat(4, 5), 0, TRUE>>},
      op \in {<<0, 0, 0, 0>>, <<1, 1, 0, 0>>, <<1, 1, 11, 51>>}}

\* a detector result for each score of the grid, as predict builds it
MLResults ==
    {NoValue}
    \cup {[anomaly_score |-> a,
           is_anomaly |-> a >= SampleForest.threshold,
           confidence |-> calculate_confidence(SampleForest, a),
           threshold |-> SampleForest.threshold] : a \in Scores}

InitRisk ==
    /\ EngineIdle
    /\ fn = "SignalEngine._compute_risk"
    /\ arg \in [features : RiskFeatures, ml_result : MLResults]
    /\ res = NoValue

\* heuristic = filter_with_features(features), then _compute_risk
ApplyComputeRisk ==
    /\ fn = "SignalEngine._compute_risk"
    /\ res = NoValue
    /\ \E heuristic \in {filter_with_features(arg.features)} :
       \E risk \in {compute_risk(heuristic, arg.ml_result)} :
          res' = [heuristic |-> heuristic, risk_level |-> risk[1],
                  risk_score |-> risk[2], confidence |-> risk[3]]
    /\ UNCHANGED <<engineVars, fn, arg>>

SpecRisk == (InitRisk \/ InitSignal) /\ [][ApplyComputeRisk \/ NextSignal]_vars

RiskDone == fn = "SignalEngine._compute_risk" /\ res # NoValue

\* C15: the raw risk score is 0.4 * (min(n, 10) / 10) + 0.6 * anomaly_score
\* with a detector and min(n, 10) / 10 without, n the number of heuristic
\* indicators (0 to 14); the raw confidence is 0.4 * heuristic confidence
\* + 0.6 * detector confidence, or the heuristic confidence alone
C15_RawScoreFormula ==
    RiskDone =>
        LET n == Len(res.heuristic.risk_indicators)
            term == (Min(n, 10) * ONE) \div 10
            ml == arg.ml_result
        IN /\ n \in 0..14
           /\ res.risk_score
                = IF ml # NoValue THEN (4 * term + 6 * ml.anomaly_score) \div 10 ELSE term
           /\ res.confidence
                = IF ml # NoValue
                  THEN (4 * res.heuristic.confidence + 6 * ml.confidence) \div 10
                  ELSE res.heuristic.confidence

\* the cascade of the pre-adjustment level, first match wins
CascadeLevel(verdict, heuristic_confidence, anomaly, detector_confidence, n) ==
    CASE verdict = "suspicious" /\ 10 * heuristic_confidence > 9 * ONE -> "critical"
      [] verdict = "suspicious" /\ 10 * heuristic_confidence <= 9 * ONE /\ anomaly -> "high"
      [] verdict = "suspicious" /\ 10 * heuristic_confidence <= 9 * ONE /\ ~anomaly -> "medium"
      [] verdict # "suspicious" /\ anomaly /\ 10 * detector_confidence > 7 * ONE -> "medium"
      [] verdict # "suspicious" /\ anomaly /\ 10 * detector_confidence <= 7 * ONE -> "low"
      [] verdict # "suspicious" /\ ~anomaly /\ n >= 2 -> "low"
      [] OTHER -> "safe"

\* C16: the pre-adjustment level follows the cascade over (heuristic verdict,
\* heuristic confidence, detector result, indicator count): SUSPICIOUS above
\* 0.9 gives CRITICAL, else SUSPICIOUS with anomaly HIGH, else SUSPICIOUS
\* MEDIUM, else anomaly MEDIUM above detector confidence 0.7 and LOW
\* otherwise, else two indicators LOW, else SAFE; and a signal emitted with
\* the protocol filter disabled carries that level
C16_LevelCascade ==
    /\ RiskDone =>
          res.risk_level
            = CascadeLevel(res.heuristic.result, res.heuristic.confidence,
                           arg.ml_result # NoValue /\ arg.ml_result.is_anomaly,
                           IF arg.ml_result # NoValue THEN arg.ml_result.confidence ELSE 0,
                           Len(res.heuristic.risk_indicators))
    /\ (engine = "signal" /\ call # NoValue /\ call.op \in {"analyze", "analyze_async"}
        /\ call.outcome = "returned" /\ protocol_filter = NoValue) =>
          call.signal.risk_level
            = CascadeLevel(call.signal.heuristic_result, call.signal.heuristic_confidence,
                           ml_detector # NoValue
                             /\ call.signal.ml_score >= ml_detector.threshold,
                           call.signal.ml_confidence,
                           Len(call.signal.risk_indicators))

\* a signal emitted without protocol filter whose level comes from the
\* cascade and not from its score: CRITICAL at a score below 0.70
C16_Witness ==
    /\ engine = "signal" /\ call # NoValue /\ call.op = "analyze_async"
    /\ call.outcome = "returned" /\ protocol_filter = NoValue
    /\ call.signal.risk_level = "critical"
    /\ 10 * call.signal.risk_score < 7 * ONE

\* the detector rows of the cascade: an anomaly on an UNKNOWN verdict at
\* detector confidence 0.60 gives LOW
C16_AnomalyWitness ==
    /\ RiskDone
    /\ res.heuristic.result = "unknown"
    /\ arg.ml_result # NoValue /\ arg.ml_result.is_anomaly
    /\ 10 * arg.ml_result.confidence = 6 * ONE
    /\ res.risk_level = "low"

(* The indicator list of an emitted signal or result *)

\* the position of each tag in the order in which the checks that produce
\* it run: filter, filter_with_features, then the two simulation tags
CheckOrder ==
    IndicatorRank @@ ("simulation_timeout" :> 20) @@ ("simulation_error" :> 21)

EmittedIndicators ==
    IF call = NoValue \/ call.outcome # "returned" THEN <<>>
    ELSE IF engine = "signal" /\ call.op \in {"analyze", "analyze_async"}
    THEN call.signal.risk_indicators
    ELSE IF engine = "inference" /\ call.op \in {"analyze", "analyze_trace"}
    THEN call.result.risk_indicators
    ELSE <<>>

\* C17: on every analysis path of both engines the emitted risk-indicator
\* list holds no tag twice and any two of its tags stand in the order in
\* which the checks producing them run, whatever the transaction's data
C17_IndicatorsUniqueInCheckOrder ==
    \A i, j \in DOMAIN EmittedIndicators :
        i < j => CheckOrder[EmittedIndicators[i]] < CheckOrder[EmittedIndicators[j]]

----------------------------------------------------------------------------
(* grpc/server.py: SentinelInferenceServicer and its ServerStats *)

\* ServerStats(start_time=...): the counters, the two dicts, the ring
ZeroServerStats ==
    [transactions_analyzed |-> 0, suspicious_detected |-> 0, blocked_recommended |-> 0,
     total_latency_ms |-> 0, by_risk_level |-> <<>>, by_protocol |-> <<>>,
     recent_alerts |-> <<>>]

\* _risk_level_to_proto: the enum constant, by its name
risk_level_to_proto(level) ==
    CASE level = "safe" -> "RISK_SAFE"
      [] level = "low" -> "RISK_LOW"
      [] level = "medium" -> "RISK_MEDIUM"
      [] level = "high" -> "RISK_HIGH"
      [] level = "critical" -> "RISK_CRITICAL"
      [] OTHER -> "RISK_UNKNOWN"

\* _signal_to_response: the fields of the response that the statistics read
signal_to_response(signal) ==
    [tx_hash |-> signal.tx_hash,
     is_suspicious |-> signal.risk_level \in {"high", "critical"},
     risk_level |-> risk_level_to_proto(signal.risk_level),
     risk_indicators |-> signal.risk_indicators,
     recommendation |->
         CASE signal.risk_level = "critical" -> "RECOMMENDATION_BLOCK"
           [] signal.risk_level = "high" -> "RECOMMENDATION_REVIEW"
           [] signal.risk_level = "medium" -> "RECOMMENDATION_FLAG"
           [] OTHER -> "RECOMMENDATION_ALLOW",
     protocol_context |-> [protocol |-> signal.protocol]]

\* the dict entry appended to recent_alerts
AlertEntry(response, timestamp) ==
    [tx_hash |-> response.tx_hash, risk_level |-> response.risk_level,
     timestamp |-> timestamp, protocol |-> response.protocol_context.protocol,
     risk_indicators |-> response.risk_indicators]

\* d[key] = d.get(key, 0) + 1
Counted(d, key) == (key :> DictGet(d, key) + 1) @@ d

\* lst[-100:]
Last100(lst) == SubSeq(lst, Max(1, Len(lst) - 99), Len(lst))

\* the ring cut to its first 100 entries instead of its last
update_stats_KeepFirst(s, response, latency_ms, timestamp) ==
    LET appended == IF response.risk_level \in {"RISK_HIGH", "RISK_CRITICAL"}
                    THEN Append(s.recent_alerts, AlertEntry(response, timestamp))
                    ELSE s.recent_alerts
    IN [s EXCEPT
          !.transactions_analyzed = @ + 1,
          !.total_latency_ms = @ + latency_ms,
          !.suspicious_detected = IF response.is_suspicious THEN @ + 1 ELSE @,
          !.blocked_recommended =
              IF response.recommendation = "RECOMMENDATION_BLOCK" THEN @ + 1 ELSE @,
          !.by_risk_level = Counted(@, response.risk_level),
          !.by_protocol = IF response.protocol_context.protocol # ""
                          THEN Counted(@, response.protocol_context.protocol) ELSE @,
          !.recent_alerts = IF Len(appended) > 100 THEN SubSeq(appended, 1, 100)
                            ELSE appended]

\* SentinelInferenceServicer._update_stats(response, latency_ms), run alone
update_stats(s, response, latency_ms, timestamp) ==
    LET appended == IF response.risk_level \in {"RISK_HIGH", "RISK_CRITICAL"}
                    THEN Append(s.recent_alerts, AlertEntry(response, timestamp))
                    ELSE s.recent_alerts
    IN [s EXCEPT
          !.transactions_analyzed = @ + 1,
          !.total_latency_ms = @ + latency_ms,
          !.suspicious_detected = IF response.is_suspicious THEN @ + 1 ELSE @,
          !.blocked_recommended =
              IF response.recommendation = "RECOMMENDATION_BLOCK" THEN @ + 1 ELSE @,
          !.by_risk_level = Counted(@, response.risk_level),
          !.by_protocol = IF response.protocol_context.protocol # ""
                          THEN Counted(@, response.protocol_context.protocol) ELSE @,
          !.recent_alerts = IF Len(appended) > 100 THEN Last100(appended) ELSE appended]

----------------------------------------------------------------------------
(* The serving layer, one request after the other *)

\* responses served in one run
MaxServed == 260

\* the streams of signals served: only alerts, every level in turn, no alert
Streams == {"alerts", "mixed", "quiet"}

\* the i-th signal of a stream; its hash is its arrival number
SignalAt(stream, i) ==
    [tx_hash |-> i,
     risk_level |-> CASE stream = "alerts" -> IF i % 2 = 0 THEN "high" ELSE "critical"
                      [] stream = "mixed" -> RiskLevels[(i % 5) + 1]
                      [] OTHER -> RiskLevels[(i % 3) + 1],
     protocol |-> IF i % 2 = 0 THEN "unknown" ELSE "uniswap_v2",
     risk_indicators |-> IF i % 2 = 0 THEN <<>> ELSE <<"flash_loan_detected">>]

ServerIdle ==
    /\ tables = ModuleTables
    /\ database = NoValue
    /\ engine = "server"
    /\ hash_seed = 0
    /\ protocol_filter = NoValue
    /\ ml_detector = NoValue
    /\ enable_simulation = FALSE
    /\ min_alert_level = "medium"
    /\ alert_callbacks = <<>>
    /\ observed = NoValue
    /\ fn = "none" /\ arg = NoValue /\ res = NoValue

InitServer ==
    /\ ServerIdle
    /\ stats = ZeroServerStats
    /\ call \in [mode : {"sequence"}, stream : Streams, served : {0}]

\* Analyze, from the returned response on: _update_stats(result, latency_ms)
ServeUpdate ==
    /\ engine = "server" /\ call.mode = "sequence"
    /\ call.served < MaxServed
    /\ \E response \in {signal_to_response(SignalAt(call.stream, call.served + 1))} :
          stats' = update_stats(stats, response, MaxLatency, call.served + 1)
    /\ call' = [call EXCEPT !.served = @ + 1]
    /\ UNCHANGED <<tables, database, engine, hash_seed, protocol_filter, ml_detector, enable_simulation,
                   min_alert_level, alert_callbacks, observed, harnessVars>>

NextServer == ServeUpdate

SpecServer == InitServer /\ [][NextServer]_vars

\* arrival numbers of the HIGH and CRITICAL responses served so far
AlertArrivals ==
    {i \in 1..call.served : SignalAt(call.stream, i).risk_level \in {"high", "critical"}}

\* C18: after any sequence of statistics updates the recent-alerts ring
\* holds at most 100 entries, namely the most recent min(k, 100) HIGH or
\* CRITICAL responses in arrival order, k being the number of such
\* responses so far; SAFE, LOW and MEDIUM responses never enter it
C18_RingHoldsLastHundredAlerts ==
    (engine = "server" /\ call.mode = "sequence") =>
        LET ring == stats.recent_alerts
            k == Cardinality(AlertArrivals)
        IN /\ Len(ring) <= 100
           /\ Len(ring) = Min(k, 100)
           /\ \A j \in DOMAIN ring :
                 /\ ring[j].tx_hash \in AlertArrivals
                 /\ ring[j].risk_level \in {"RISK_HIGH", "RISK_CRITICAL"}
                 /\ j > 1 => ring[j - 1].tx_hash < ring[j].tx_hash
           /\ ring # <<>> =>
                 {i \in AlertArrivals : i >= ring[1].tx_hash}
                    = {ring[j].tx_hash : j \in DOMAIN ring}

\* 102 alerts among 254 mixed responses: the two oldest have left the ring
C18_Witness ==
    /\ engine = "server" /\ call.mode = "sequence"
    /\ call.stream = "mixed"
    /\ Cardinality(AlertArrivals) = 102
    /\ Len(stats.recent_alerts) = 100
    /\ stats.recent_alerts[1].tx_hash = 8
    /\ stats.recent_alerts[100].tx_hash = call.served

----------------------------------------------------------------------------
(* The serving layer on its thread pool: serve() hands every request to a
   worker of futures.ThreadPoolExecutor, and the workers share self.stats.
   A statement "x += 1" or "d[k] = d.get(k, 0) + 1" loads the old value and
   stores the new one in two steps, and another worker may run in between.
   A worker that appends to the list another worker has already sliced
   leaves the same ring as one that appends between the slice and the
   assignment, so the list is modelled by its value. *)

\* worker threads that serve at the same time
MaxWorkers == 2

Workers == 1..MaxWorkers

RECURSIVE ServedStats(_, _)
\* the statistics after the first n signals of a stream, served in turn
ServedStats(stream, n) ==
    IF n = 0 THEN ZeroServerStats
    ELSE update_stats(ServedStats(stream, n - 1),
                      signal_to_response(SignalAt(stream, n)), MaxLatency, n)

\* alerts already in the ring when the workers start
RingStarts == {0, 99, 100}

\* what the engine returns to a worker
WorkerSignals(w) ==
    {[tx_hash |-> MaxServed + w, risk_level |-> level, protocol |-> protocol,
      risk_indicators |-> <<>>] :
        level \in {"low", "high", "critical"}, protocol \in {"unknown", "uniswap_v2"}}

\* the statements of _update_stats, in order
Statements ==
    <<"transactions_analyzed", "total_latency_ms", "suspicious_detected",
      "blocked_recommended", "by_risk_level", "by_protocol", "recent_alerts">>

\* the if in front of a statement
Runs(statement, response) ==
    CASE statement = "suspicious_detected" -> response.is_suspicious
      [] statement = "blocked_recommended" ->
            response.recommendation = "RECOMMENDATION_BLOCK"
      [] statement = "by_protocol" -> response.protocol_context.protocol # ""
      [] statement = "recent_alerts" ->
            response.risk_level \in {"RISK_HIGH", "RISK_CRITICAL"}
      [] OTHER -> TRUE

RECURSIVE StatementFrom(_, _)
\* the first statement from position i on that runs for the response
StatementFrom(i, response) ==
    IF i > Len(Statements) THEN "return"
    ELSE IF Runs(Statements[i], response) THEN Statements[i]
    ELSE StatementFrom(i + 1, response)

Position(statement) == The({i \in DOMAIN Statements : Statements[i] = statement})

After(statement, response) == StatementFrom(Position(statement) + 1, response)

InitServerThreads ==
    /\ ServerIdle
    /\ \E n \in RingStarts :
          /\ stats = ServedStats("alerts", n)
          /\ call = [mode |-> "threads", started |-> n,
                     worker |-> [w \in Workers |->
                                   [pc |-> "Analyze", half |-> "load", raised |-> FALSE,
                                    response |-> NoValue, loaded |-> 0, sliced |-> <<>>]]]

ThreadsRunning == engine = "server" /\ call.mode = "threads"

ThreadStep(w, worker, new_stats) ==
    /\ call' = [call EXCEPT !.worker[w] = worker]
    /\ stats' = new_stats
    /\ UNCHANGED <<tables, database, engine, hash_seed, protocol_filter, ml_detector, enable_simulation,
                   min_alert_level, alert_callbacks, observed, harnessVars>>

\* the load half of a read-modify-write statement
Load(w, statement, value) ==
    /\ ThreadsRunning
    /\ call.worker[w].pc = statement /\ call.worker[w].half = "load"
    /\ ThreadStep(w, [call.worker[w] EXCEPT !.half = "store", !.loaded = value], stats)

\* the store half, and on to the next statement that runs
Store(w, statement, new_stats) ==
    /\ ThreadsRunning
    /\ call.worker[w].pc = statement /\ call.worker[w].half = "store"
    /\ ThreadStep(w, [call.worker[w] EXCEPT
                         !.pc = After(statement, call.worker[w].response),
                         !.half = "load", !.loaded = 0],
                  new_stats)

\* Analyze: the analysis raises, the except branch returns an empty response
AnalyzeRaises(w) ==
    /\ ThreadsRunning
    /\ call.worker[w].pc = "Analyze"
    /\ ThreadStep(w, [call.worker[w] EXCEPT !.pc = "return", !.raised = TRUE], stats)

\* Analyze: the analysis returns, _update_stats(result, latency_ms) begins
AnalyzeReturns(w) ==
    /\ ThreadsRunning
    /\ call.worker[w].pc = "Analyze"
    /\ \E signal \in WorkerSignals(w) :
          \E response \in {signal_to_response(signal)} :
             ThreadStep(w, [call.worker[w] EXCEPT
                               !.pc = StatementFrom(1, response),
                               !.response = response],
                        stats)

\* self.stats.transactions_analyzed += 1
LoadTransactionsAnalyzed(w) ==
    /\ call.worker[w].response # NoValue
    /\ Load(w, "transactions_analyzed", stats.transactions_analyzed)

StoreTransactionsAnalyzed(w) ==
    /\ call.worker[w].response # NoValue
    /\ Store(w, "transactions_analyzed",
             [stats EXCEPT !.transactions_analyzed = call.worker[w].loaded + 1])

\* self.stats.total_latency_ms += latency_ms
LoadTotalLatency(w) ==
    /\ call.worker[w].response # NoValue
    /\ Load(w, "total_latency_ms", stats.total_latency_ms)

StoreTotalLatency(w) ==
    /\ call.worker[w].response # NoValue
    /\ Store(w, "total_latency_ms",
             [stats EXCEPT !.total_latency_ms = call.worker[w].loaded + MaxLatency])

\* self.stats.suspicious_detected += 1
LoadSuspiciousDetected(w) ==
    /\ call.worker[w].response # NoValue
    /\ Load(w, "suspicious_detected", stats.suspicious_detected)

StoreSuspiciousDetected(w) ==
    /\ call.worker[w].response # NoValue
    /\ Store(w, "suspicious_detected",
             [stats EXCEPT !.suspicious_detected = call.worker[w].loaded + 1])

\* self.stats.blocked_recommended += 1
LoadBlockedRecommended(w) ==
    /\ call.worker[w].response # NoValue
    /\ Load(w, "blocked_recommended", stats.blocked_recommended)

StoreBlockedRecommended(w) ==
    /\ call.worker[w].response # NoValue
    /\ Store(w, "blocked_recommended",
             [stats EXCEPT !.blocked_recommended = call.worker[w].loaded + 1])

\* self.stats.by_risk_level[risk_name] = self.stats.by_risk_level.get(risk_name, 0) + 1
LoadByRiskLevel(w) ==
    /\ call.worker[w].response # NoValue
    /\ Load(w, "by_risk_level",
            DictGet(stats.by_risk_level, call.worker[w].response.risk_level))

StoreByRiskLevel(w) ==
    /\ call.worker[w].response # NoValue
    /\ Store(w, "by_risk_level",
             [stats EXCEPT !.by_risk_level =
                 (call.worker[w].response.risk_level :> call.worker[w].loaded + 1) @@ @])

\* self.stats.by_protocol[proto] = self.stats.by_protocol.get(proto, 0) + 1
LoadByProtocol(w) ==
    /\ call.worker[w].response # NoValue
    /\ Load(w, "by_protocol",
            DictGet(stats.by_protocol, call.worker[w].response.protocol_context.protocol))

StoreByProtocol(w) ==
    /\ call.worker[w].response # NoValue
    /\ Store(w, "by_protocol",
             [stats EXCEPT !.by_protocol =
                 (call.worker[w].response.protocol_context.protocol
                     :> call.worker[w].loaded + 1) @@ @])

\* self.stats.recent_alerts.append({...})
AppendAlert(w) ==
    /\ ThreadsRunning
    /\ call.worker[w].pc = "recent_alerts" /\ call.worker[w].half = "load"
    /\ ThreadStep(w, [call.worker[w] EXCEPT !.pc = "len"],
                  [stats EXCEPT !.recent_alerts =
                      Append(@, AlertEntry(call.worker[w].response, 0))])

\* if len(self.stats.recent_alerts) > 100
TestLength(w) ==
    /\ ThreadsRunning
    /\ call.worker[w].pc = "len"
    /\ ThreadStep(w, [call.worker[w] EXCEPT
                         !.pc = IF Len(stats.recent_alerts) > 100 THEN "slice"
                                ELSE "return"],
                  stats)

\* self.stats.recent_alerts[-100:]
SliceAlerts(w) ==
    /\ ThreadsRunning
    /\ call.worker[w].pc = "slice"
    /\ ThreadStep(w, [call.worker[w] EXCEPT
                         !.pc = "assign", !.sliced = Last100(stats.recent_alerts)],
                  stats)

\* self.stats.recent_alerts = ...
AssignAlerts(w) ==
    /\ ThreadsRunning
    /\ call.worker[w].pc = "assign"
    /\ ThreadStep(w, [call.worker[w] EXCEPT !.pc = "return", !.sliced = <<>>],
                  [stats EXCEPT !.recent_alerts = call.worker[w].sliced])

NextServerThreads ==
    \E w \in Workers :
        \/ AnalyzeRaises(w)
        \/ AnalyzeReturns(w)
        \/ LoadTransactionsAnalyzed(w)
        \/ StoreTransactionsAnalyzed(w)
        \/ LoadTotalLatency(w)
        \/ StoreTotalLatency(w)
        \/ LoadSuspiciousDetected(w)
        \/ StoreSuspiciousDetected(w)
        \/ LoadBlockedRecommended(w)
        \/ StoreBlockedRecommended(w)
        \/ LoadByRiskLevel(w)
        \/ StoreByRiskLevel(w)
        \/ LoadByProtocol(w)
        \/ StoreByProtocol(w)
        \/ AppendAlert(w)
        \/ TestLength(w)
        \/ SliceAlerts(w)
        \/ AssignAlerts(w)

SpecServerThreads == InitServerThreads /\ [][NextServerThreads]_vars

\* the workers whose analysis completed with a response
Completed == {w \in Workers : call.worker[w].response # NoValue}

AllReturned == \A w \in Workers : call.worker[w].pc = "return"

\* C19: when N analyses are served at the same time on separate worker
\* threads and all complete, no counter update is lost: the total-analyzed
\* counter has grown by N, the per-risk-level and per-protocol counts each
\* sum to N more, the latency sum includes every analysis, and the
\* recent-alerts ring contains every HIGH or CRITICAL alert of the workers
\* (the ring's bound of 100 is never reached by their alerts alone)
C19_NoCounterUpdateLost ==
    (ThreadsRunning /\ AllReturned /\ Completed = Workers) =>
        LET before == ServedStats("alerts", call.started)
            N == Cardinality(Completed)
            alerts == {w \in Workers : call.worker[w].response.is_suspicious}
        IN /\ stats.transactions_analyzed = before.transactions_analyzed + N
           /\ SumOver(stats.by_risk_level, DOMAIN stats.by_risk_level)
                = SumOver(before.by_risk_level, DOMAIN before.by_risk_level) + N
           /\ SumOver(stats.by_protocol, DOMAIN stats.by_protocol)
                = SumOver(before.by_protocol, DOMAIN before.by_protocol) + N
           /\ stats.total_latency_ms = before.total_latency_ms + N * MaxLatency
           /\ Len(stats.recent_alerts)
                = Min(Len(before.recent_alerts) + Cardinality(alerts), 100)
           /\ \A w \in alerts :
                 \E j \in DOMAIN stats.recent_alerts :
                    stats.recent_alerts[j].tx_hash = call.worker[w].response.tx_hash

----------------------------------------------------------------------------
(* The tables behind the filters: one HeuristicFilter and one
   ProtocolFilter, both built without arguments, receive add_* calls, and
   another pair built without arguments is asked for its verdicts *)

\* add_* calls per run
MaxTableCalls == 3

\* HeuristicFilter() while the module's objects are t: safe_selectors and
\* suspicious_selectors are the module's sets themselves, the whitelist
\* is a set of its own
HeuristicFilterOn(t, whitelisted_contracts) ==
    [safe_selectors |-> t.SAFE_SELECTORS,
     suspicious_selectors |-> t.SUSPICIOUS_SELECTORS,
     whitelisted_contracts |-> whitelisted_contracts,
     max_safe_gas |-> max_safe_gas,
     min_suspicious_value |-> min_suspicious_value]

\* ProtocolFilter() while the module's objects are t: operation_selectors
\* is the module's dict itself, the address table is a dict of its own
ProtocolFilterOn(t, protocol_addresses) ==
    [protocol_addresses |-> protocol_addresses,
     operation_selectors |-> t.OPERATION_SELECTORS,
     enable_bounds_check |-> TRUE]

TableSelectors == {Hex("0x5cffe9de"), Hex("0xa9059cbb"), UnlistedSelector}

TableTxs ==
    {PendingTransaction("0xb1", to, 0, 200000, CallInput(selector)) :
        to \in {UniswapV2Router, UnlistedAddress}, selector \in TableSelectors}

InitTables ==
    /\ tables = ModuleTables
    /\ database = NoValue
    /\ engine = "tables"
    /\ hash_seed = 0
    /\ protocol_filter = NoValue
    /\ ml_detector = NoValue
    /\ enable_simulation = FALSE
    /\ min_alert_level = "medium"
    /\ alert_callbacks = <<>>
    /\ stats = NoValue
    /\ call = [op |-> "__init__", calls |-> 0,
               whitelisted_contracts |-> DefaultHeuristicFilter.whitelisted_contracts,
               protocol_addresses |-> DefaultProtocolFilter.protocol_addresses]
    /\ observed = NoValue
    /\ fn = "none" /\ arg = NoValue /\ res = NoValue

\* one add_* call on the first pair of filters
TableCall(op, new_tables, whitelisted_contracts, protocol_addresses) ==
    /\ engine = "tables"
    /\ tables' = new_tables
    /\ call' = [op |-> op, calls |-> call.calls + 1,
                whitelisted_contracts |-> whitelisted_contracts,
                protocol_addresses |-> protocol_addresses]
    /\ UNCHANGED <<database, engine, hash_seed, protocol_filter, ml_detector,
                   enable_simulation, min_alert_level, alert_callbacks, stats, observed,
                   harnessVars>>

\* HeuristicFilter.add_safe_selector(selector): self.safe_selectors.add(selector)
AddSafeSelector ==
    /\ call.calls < MaxTableCalls
    /\ \E selector \in TableSelectors :
           TableCall("add_safe_selector",
                     [tables EXCEPT !.SAFE_SELECTORS =
                         add_safe_selector(HeuristicFilterOn(tables, call.whitelisted_contracts),
                                           selector).safe_selectors],
                     call.whitelisted_contracts, call.protocol_addresses)

\* HeuristicFilter.add_suspicious_selector(selector)
AddSuspiciousSelector ==
    /\ call.calls < MaxTableCalls
    /\ \E selector \in TableSelectors :
           TableCall("add_suspicious_selector",
                     [tables EXCEPT !.SUSPICIOUS_SELECTORS = @ \cup {selector}],
                     call.whitelisted_contracts, call.protocol_addresses)

\* HeuristicFilter.add_whitelisted_contract(address)
AddWhitelistedContract ==
    /\ call.calls < MaxTableCalls
    /\ \E address \in {UnlistedAddress, Mixed(UnlistedAddress.hex)} :
           TableCall("add_whitelisted_contract", tables,
                     call.whitelisted_contracts \cup {Lower(address)},
                     call.protocol_addresses)

\* ProtocolFilter.add_protocol(address, protocol)
AddProtocol ==
    /\ call.calls < MaxTableCalls
    /\ \E address \in {UnlistedAddress}, protocol \in {"curve"} :
           TableCall("add_protocol", tables, call.whitelisted_contracts,
                     (Lower(address) :> protocol) @@ call.protocol_addresses)

\* ProtocolFilter.add_operation(selector, operation)
AddOperation ==
    /\ call.calls < MaxTableCalls
    /\ \E selector \in {UnlistedSelector}, operation \in {"swap"} :
           TableCall("add_operation",
                     [tables EXCEPT !.OPERATION_SELECTORS =
                         add_operation(ProtocolFilterOn(tables, call.protocol_addresses),
                                       selector, operation).operation_selectors],
                     call.whitelisted_contracts, call.protocol_addresses)

\* HeuristicFilter().filter(tx), and ProtocolFilter().identify_protocol and
\* identify_operation on the same transaction: a pair built without
\* arguments (before or after the add_* calls: it holds the same objects)
OtherFilters ==
    /\ engine = "tables"
    /\ \E tx \in TableTxs :
          \E hf \in {HeuristicFilterOn(tables, DefaultHeuristicFilter.whitelisted_contracts)},
             pf \in {ProtocolFilterOn(tables, DefaultProtocolFilter.protocol_addresses)} :
             res' = [tx |-> tx,
                     verdict |-> HeuristicFilter_filter(hf, tx),
                     protocol |-> identify_protocol(pf.protocol_addresses, tx.to_address),
                     operation |-> identify_operation(pf.operation_selectors, tx.input_data)]
    /\ UNCHANGED <<engineVars, fn, arg>>

NextTables ==
    \/ AddSafeSelector
    \/ AddSuspiciousSelector
    \/ AddWhitelistedContract
    \/ AddProtocol
    \/ AddOperation
    \/ OtherFilters

SpecTables == InitTables /\ [][NextTables]_vars

\* C25: the selector and protocol tables shared between instances are
\* never changed by an operation: after any add_safe_selector,
\* add_suspicious_selector, add_whitelisted_contract, add_protocol or
\* add_operation calls on one HeuristicFilter or ProtocolFilter, every
\* other instance built with the default tables gives the verdicts and
\* identifications it would give had the calls not happened
C25_SharedTablesUnchanged ==
    (engine = "tables" /\ res # NoValue) =>
        /\ res.verdict = HeuristicFilter_filter(DefaultHeuristicFilter, res.tx)
        /\ res.protocol = identify_protocol(DefaultProtocolFilter.protocol_addresses,
                                            res.tx.to_address)
        /\ res.operation = identify_operation(DefaultProtocolFilter.operation_selectors,
                                              res.tx.input_data)

----------------------------------------------------------------------------
(* persistence/database.py: SQLiteBackend over the alerts and
   analysis_records tables. A table is the set of its rows; a text column
   written by json.dumps, datetime.isoformat or AlertStatus.value holds the
   encoded text, read back by json.loads, datetime.fromisoformat and
   AlertStatus(...) *)

\* save_alert and save_analysis calls per run
MaxSaves == 3

\* get_alerts(..., limit: int = 100, ...)
DefaultLimit == 100

AlertStatusValue ==
    [PENDING |-> "pending", CONFIRMED |-> "confirmed",
     FALSE_POSITIVE |-> "false_positive", RESOLVED |-> "resolved"]

\* AlertStatus(value)
AlertStatusOf(value) == CHOOSE name \in DOMAIN AlertStatusValue : AlertStatusValue[name] = value

json_dumps(value) == [json |-> value]

json_loads(text) == text.json

isoformat(time) == [iso |-> time]

fromisoformat(text) == text.iso

Alert(id, tx_hash, created_at, risk_score, risk_indicators, status) ==
    [id |-> id, tx_hash |-> tx_hash, created_at |-> created_at, risk_level |-> "high",
     risk_score |-> risk_score, confidence |-> 900000, risk_indicators |-> risk_indicators,
     protocol |-> "unknown", operation |-> "unknown", explanation |-> "",
     status |-> status, reviewed_at |-> NoValue, reviewed_by |-> NoValue,
     notes |-> NoValue, metadata |-> <<>>]

AnalysisRecord(id, tx_hash, analyzed_at, risk_score) ==
    [id |-> id, tx_hash |-> tx_hash, analyzed_at |-> analyzed_at, risk_level |-> "high",
     risk_score |-> risk_score, raw_risk_score |-> risk_score, confidence |-> 900000,
     heuristic_result |-> "suspicious", ml_score |-> risk_score,
     risk_indicators |-> <<"flash_loan">>, protocol |-> "unknown",
     operation |-> "unknown", risk_adjustment |-> 0, latency_ms |-> 1,
     from_address |-> "0xf00d", to_address |-> NoValue, value_wei |-> "0",
     gas |-> 200000, input_data_hash |-> "0x00", features |-> <<>>]

\* the parameter tuple of save_alert's INSERT
AlertRow(alert) ==
    [alert EXCEPT !.created_at = isoformat(alert.created_at),
                  !.risk_indicators = json_dumps(alert.risk_indicators),
                  !.status = AlertStatusValue[alert.status],
                  !.reviewed_at = IF alert.reviewed_at # NoValue
                                  THEN isoformat(alert.reviewed_at) ELSE NoValue,
                  !.metadata = json_dumps(alert.metadata)]

row_to_alert(row) ==
    [row EXCEPT !.created_at = fromisoformat(row.created_at),
                !.risk_indicators = json_loads(row.risk_indicators),
                !.status = AlertStatusOf(row.status),
                !.reviewed_at = IF row.reviewed_at # NoValue
                                THEN fromisoformat(row.reviewed_at) ELSE NoValue,
                !.metadata = IF row.metadata # NoValue THEN json_loads(row.metadata) ELSE <<>>]

\* the parameter tuple of save_analysis's INSERT
AnalysisRow(record) ==
    [record EXCEPT !.analyzed_at = isoformat(record.analyzed_at),
                   !.risk_indicators = json_dumps(record.risk_indicators),
                   !.features = json_dumps(record.features)]

row_to_analysis(row) ==
    [row EXCEPT !.analyzed_at = fromisoformat(row.analyzed_at),
                !.risk_indicators = json_loads(row.risk_indicators),
                !.features = IF row.features # NoValue THEN json_loads(row.features) ELSE <<>>]

\* INSERT OR IGNORE: a row that collides on a unique column is dropped
InsertOrIgnore(rows, row, unique) ==
    IF \E r \in rows : \E column \in unique : r[column] = row[column]
    THEN rows
    ELSE rows \cup {row}

\* INSERT OR REPLACE: the rows that collide with the new one on a unique
\* column are deleted, then the new row is inserted
InsertOrReplace(rows, row, unique) ==
    {r \in rows : \A column \in unique : r[column] # row[column]} \cup {row}

\* conn.execute(...).fetchone() of a SELECT on a unique column
FetchOne(rows) == IF rows = {} THEN NoValue ELSE CHOOSE r \in rows : TRUE

\* save_alert written with INSERT OR IGNORE
save_alert_KeepFirst(db, alert) ==
    [db EXCEPT !.alerts = InsertOrIgnore(@, AlertRow(alert), {"id"})]

\* alerts: id TEXT PRIMARY KEY
save_alert(db, alert) ==
    [db EXCEPT !.alerts = InsertOrReplace(@, AlertRow(alert), {"id"})]

\* analysis_records: id TEXT PRIMARY KEY, tx_hash TEXT NOT NULL UNIQUE
save_analysis(db, record) ==
    [db EXCEPT !.analysis_records = InsertOrReplace(@, AnalysisRow(record), {"id", "tx_hash"})]

get_alert(db, alert_id) ==
    The({IF row # NoValue THEN row_to_alert(row) ELSE NoValue :
            row \in {FetchOne({r \in db.alerts : r.id = alert_id})}})

get_analysis_by_tx(db, tx_hash) ==
    The({IF row # NoValue THEN row_to_analysis(row) ELSE NoValue :
            row \in {FetchOne({r \in db.analysis_records : r.tx_hash = tx_hash})}})

\* SELECT * FROM alerts WHERE status = ? ORDER BY created_at DESC LIMIT ?
\* OFFSET 0: the sets of rows the statement can return; rows with equal
\* created_at come in an order the statement does not fix
SelectAlerts(db, status, limit) ==
    LET matching == {r \in db.alerts : r.status = AlertStatusValue[status]}
        Newer(r) == {q \in matching : q.created_at.iso > r.created_at.iso}
        Ties(r) == {q \in matching : q.created_at.iso = r.created_at.iso}
    IN  IF Cardinality(matching) <= limit
        THEN {matching}
        ELSE UNION {{Newer(r) \cup tied :
                        tied \in {t \in SUBSET Ties(r) :
                                    Cardinality(t) = limit - Cardinality(Newer(r))}} :
                    r \in {q \in matching : /\ Cardinality(Newer(q)) < limit
                                            /\ Cardinality(Newer(q) \cup Ties(q)) >= limit}}

\* alert and record ids stand for the UUID strings of generate_id, numbered
StoredAlerts == {Alert(i, "0x0b", i, 500000, <<>>, "PENDING") : i \in 1..(DefaultLimit - 1)}

NewAlertIds == {DefaultLimit + 1, DefaultLimit + 2}

NewAlerts ==
    {Alert(id, content[1], created_at, content[2], content[3], content[4]) :
        id \in NewAlertIds, created_at \in {DefaultLimit, DefaultLimit + 1},
        content \in {<<"0x01", 500000, <<>>, "PENDING">>,
                     <<"0x02", 910000, <<"flash_loan", "reentrancy">>, "CONFIRMED">>}}

AlertIds == {a.id : a \in StoredAlerts} \cup NewAlertIds

RecordIds == {1, 2}

RecordTxs == {"0x01", "0x02"}

EmptyDatabase == [alerts |-> {}, analysis_records |-> {}]

\* Database.initialize() on a new file, and on the file after the
\* save_alert calls of StoredAlerts
InitDatabase ==
    /\ tables = ModuleTables
    /\ engine = "database"
    /\ hash_seed = 0
    /\ protocol_filter = NoValue
    /\ ml_detector = NoValue
    /\ enable_simulation = FALSE
    /\ min_alert_level = "medium"
    /\ alert_callbacks = <<>>
    /\ stats = NoValue
    /\ observed = NoValue
    /\ \E stored \in {{}, StoredAlerts} :
          /\ database = [EmptyDatabase EXCEPT !.alerts = {AlertRow(a) : a \in stored}]
          /\ call = [op |-> "initialize", saves |-> 0,
                     alerts |-> [id \in AlertIds |->
                                    IF \E a \in stored : a.id = id
                                    THEN CHOOSE a \in stored : a.id = id
                                    ELSE NoValue],
                     analyses |-> <<>>]
    /\ fn = "none" /\ arg = NoValue /\ res = NoValue

DatabaseFrame ==
    UNCHANGED <<tables, engine, hash_seed, protocol_filter, ml_detector, enable_simulation,
                min_alert_level, alert_callbacks, stats, observed, fn, arg>>

\* Database.save_alert(alert); call.alerts keeps the alert last passed
\* for each id
SaveAlert ==
    /\ engine = "database"
    /\ call.saves < MaxSaves
    /\ \E alert \in NewAlerts :
          /\ database' = save_alert(database, alert)
          /\ call' = [call EXCEPT !.op = "save_alert", !.saves = @ + 1,
                                  !.alerts[alert.id] = alert]
    /\ res' = NoValue
    /\ DatabaseFrame

\* Database.save_analysis(record); call.analyses keeps the records passed,
\* in call order
SaveAnalysis ==
    /\ engine = "database"
    /\ call.saves < MaxSaves
    /\ \E id \in RecordIds, tx_hash \in RecordTxs :
          \E record \in {AnalysisRecord(id, tx_hash, call.saves + 1, 500000)} :
             /\ database' = save_analysis(database, record)
             /\ call' = [call EXCEPT !.op = "save_analysis", !.saves = @ + 1,
                                     !.analyses = Append(@, record)]
    /\ res' = NoValue
    /\ DatabaseFrame

\* Database.get_alert(alert_id)
GetAlert ==
    /\ engine = "database"
    /\ \E alert_id \in NewAlertIds \cup {1} :
          res' = [op |-> "get_alert", key |-> alert_id, value |-> get_alert(database, alert_id)]
    /\ UNCHANGED <<database, call>>
    /\ DatabaseFrame

\* Database.get_analysis_by_tx(tx_hash)
GetAnalysisByTx ==
    /\ engine = "database"
    /\ \E tx_hash \in RecordTxs :
          res' = [op |-> "get_analysis_by_tx", key |-> tx_hash,
                  value |-> get_analysis_by_tx(database, tx_hash)]
    /\ UNCHANGED <<database, call>>
    /\ DatabaseFrame

\* Database.get_alerts(status=status)
GetAlerts ==
    /\ engine = "database"
    /\ \E status \in {"PENDING", "CONFIRMED", "RESOLVED"} :
          \E rows \in SelectAlerts(database, status, DefaultLimit) :
             res' = [op |-> "get_alerts", key |-> status,
                     value |-> {row_to_alert(row) : row \in rows}]
    /\ UNCHANGED <<database, call>>
    /\ DatabaseFrame

NextDatabase ==
    \/ SaveAlert
    \/ SaveAnalysis
    \/ GetAlert
    \/ GetAnalysisByTx
    \/ GetAlerts

SpecDatabase == InitDatabase /\ [][NextDatabase]_vars

Answered(op) == engine = "database" /\ res # NoValue /\ res.op = op

\* equal in tx_hash, risk_score, risk_indicators and status
SameAlert(a, b) ==
    /\ a.tx_hash = b.tx_hash
    /\ a.risk_score = b.risk_score
    /\ a.risk_indicators = b.risk_indicators
    /\ a.status = b.status

\* positions in the call order of the save_analysis calls for tx_hash
SavesFor(tx_hash) == {i \in DOMAIN call.analyses : call.analyses[i].tx_hash = tx_hash}

\* the last of them
LastSaveFor(tx_hash) == CHOOSE i \in SavesFor(tx_hash) : \A j \in SavesFor(tx_hash) : j <= i

\* a later save_analysis call passed the id of the i-th one
IdReusedAfter(i) ==
    \E j \in DOMAIN call.analyses : j > i /\ call.analyses[j].id = call.analyses[i].id

\* ids of the alerts last saved with the status
IdsWithStatus(status) ==
    {id \in AlertIds : call.alerts[id] # NoValue /\ call.alerts[id].status = status}

GetAlertGivesLastSaved ==
    Answered("get_alert") =>
        IF call.alerts[res.key] = NoValue
        THEN res.value = NoValue
        ELSE res.value # NoValue /\ SameAlert(res.value, call.alerts[res.key])

\* C26 as stated: after any save_alert and save_analysis calls on an
\* initialized database, get_alert(id) gives an alert equal in tx_hash,
\* risk_score, risk_indicators and status to the one last saved with that
\* id (None if there is none), get_analysis_by_tx(tx_hash) gives the record
\* last saved for that tx_hash, and get_alerts(status=s) gives exactly the
\* stored alerts whose status is s
C26_StoreReturnsLastSaved ==
    /\ GetAlertGivesLastSaved
    /\ Answered("get_analysis_by_tx") =>
          IF SavesFor(res.key) = {}
          THEN res.value = NoValue
          ELSE res.value = call.analyses[LastSaveFor(res.key)]
    /\ Answered("get_alerts") =>
          {a.id : a \in res.value} = IdsWithStatus(res.key)

\* C26, amended: get_alert as stated; get_analysis_by_tx(tx_hash) gives the
\* record last saved for that tx_hash unless a later save_analysis call
\* passed that record's id (with another tx_hash), and None then;
\* get_alerts(status=s) gives exactly the stored alerts whose status is s
\* while there are at most 100 of them, and 100 of them otherwise
C26_StoreReturnsLastSavedWithinLimit ==
    /\ GetAlertGivesLastSaved
    /\ Answered("get_analysis_by_tx") =>
          IF SavesFor(res.key) = {} \/ IdReusedAfter(LastSaveFor(res.key))
          THEN res.value = NoValue
          ELSE res.value = call.analyses[LastSaveFor(res.key)]
    /\ Answered("get_alerts") =>
          IF Cardinality(IdsWithStatus(res.key)) <= DefaultLimit
          THEN {a.id : a \in res.value} = IdsWithStatus(res.key)
          ELSE /\ {a.id : a \in res.value} \subseteq IdsWithStatus(res.key)
               /\ Cardinality(res.value) = DefaultLimit
               /\ \A a \in res.value : SameAlert(a, call.alerts[a.id])

\* get_alerts answered while more alerts than the limit have the status
C26_Witness ==
    /\ Answered("get_alerts")
    /\ Cardinality(IdsWithStatus(res.key)) > DefaultLimit
    /\ Cardinality(res.value) = DefaultLimit

----------------------------------------------------------------------------
(* BytecodeExtractor.extract on chains where one contract was created at
   block c: no code below c, code from c to the current block *)

\* the get_code calls the loop of _get_creation_block makes
RECURSIVE CreationQueries(_, _, _)
CreationQueries(low, high, blocks) ==
    IF low < high
    THEN 1 + (IF (low + high) \div 2 \in blocks
              THEN CreationQueries(low, (low + high) \div 2, blocks)
              ELSE CreationQueries(((low + high) \div 2) + 1, high, blocks))
    ELSE 0

\* a chain at block current on which address has code from block c on
CreatedAt(address, c, current, history_fails) ==
    Chain(FALSE, [a \in ChainAddresses |-> ChainCode(a)], current,
          [a \in ChainAddresses |-> IF a = address THEN c..current ELSE {}],
          history_fails)

InitCreation ==
    /\ EngineIdle
    /\ res = NoValue
    /\ fn = "BytecodeExtractor.extract"
    /\ \E current \in 0..MaxBlock, history_fails \in BOOLEAN :
          \E c \in 0..current :
             arg = [address |-> AaveV2Pool, c |-> c,
                    w3 |-> CreatedAt(AaveV2Pool, c, current, history_fails)]

ApplyExtract ==
    /\ fn = "BytecodeExtractor.extract"
    /\ res = NoValue
    /\ res' = [features |-> BytecodeExtractor_extract(<<>>, <<>>, arg.address, arg.w3,
                                                      arg.w3.block_number),
               get_code_calls |->
                   IF arg.w3.history_fails THEN 0
                   ELSE CreationQueries(0, arg.w3.block_number,
                                        arg.w3.code_blocks[arg.address])]
    /\ UNCHANGED <<engineVars, fn, arg>>

NextCreation == ApplyExtract

SpecCreation == InitCreation /\ [][NextCreation]_vars

\* the least k with 2^k >= n
CeilLog2(n) == CHOOSE k \in 0..n : 2^k >= n /\ \A j \in 0..(k - 1) : 2^j < n

\* C28: with a consistent chain handle and a contract whose code is absent
\* below its creation block c and present from c to the current block
\* (0 <= c <= current), the creation-block search makes at most
\* ceil(log2(current + 1)) get_code queries and contract_age_blocks is
\* current - c; when the handle fails during the search the age is 0
C28_AgeFromCreationBlock ==
    (fn = "BytecodeExtractor.extract" /\ res # NoValue) =>
        IF arg.w3.history_fails
        THEN res.features.contract_age_blocks = 0
        ELSE /\ res.get_code_calls <= CeilLog2(arg.w3.block_number + 1)
             /\ res.features.contract_age_blocks = arg.w3.block_number - arg.c

====
